---- MODULE Spec2Model ----
(***************************************************************************)
(* Model of the ECS runtime of the Crystal engine (crates/ecs and the      *)
(* paged vector of crates/utils): the component registry with its paged    *)
(* columns, the entity bitmask table, id allocation and recycling, and     *)
(* the query that builds the entity list of a view.                        *)
(***************************************************************************)
EXTENDS Integers, Sequences, FiniteSets, TLC

(***************************************************************************)
(* Bounds of the model.                                                    *)
(***************************************************************************)
\* Page size of every BlockVec (NUM_OF_COMPONETS_PER_PAGE is 400 in the
\* source, component.rs:21); scaled down so that page growth happens.
PageSize == 1
\* Largest id a caller builds with Entity::new, and cap of the id counter.
MaxEntityId == 1
\* Cap of the number_of_components counter.
MaxNumberOfComponents == 5
\* Cap of the length of the free-entity queue.
MaxFree == 1
\* Number of threads that call the world concurrently.
NumThreads == 2
\* Cap of the number of calls the threads make together.
MaxThreadCalls == 2
\* Largest page count and number of bitmask bits of the bitmask tables that
\* query_by_bitmask is applied to on its own.
MaxQueryPages == 2
MaxQueryBits == 2
\* Number of bits of BitmaskType (consts.rs is not among the sources; the
\* specification suggests 64), scaled down so that the counter of
\* components reaches it.
BitmaskWidth == 4
\* BlockVecs used on their own: how many, the largest index a set is given
\* and the largest item stored.
MaxVecs == 2
MaxIndex == 2
MaxItem == 2
\* The systems a run of the model dispatches, and the workers of the pool.
MaxSystems == 2
\* The values register_unique is called with.
MaxUniqueValue == 2
NumWorkers == 2

TypeIds == {"A", "B"}
EntityIds == 0..MaxEntityId
Threads == 1..NumThreads
SystemIds == 1..MaxSystems
\* Every id the model can issue.
IssuableIds == 0..(MaxEntityId + MaxThreadCalls + 1)

(***************************************************************************)
(* Option<T>: None is the empty tuple, Some(x) the one-element tuple.      *)
(***************************************************************************)
None == <<>>
Some(x) == <<x>>
IsSome(o) == o # None
Unwrap(o) == o[1]

(***************************************************************************)
(* Integer helpers: bitwise operators of BitmaskType, u8 truncation.       *)
(***************************************************************************)
RECURSIVE BitAnd(_, _)
BitAnd(a, b) ==
    IF a = 0 \/ b = 0 THEN 0
    ELSE (IF a % 2 = 1 /\ b % 2 = 1 THEN 1 ELSE 0) + 2 * BitAnd(a \div 2, b \div 2)

RECURSIVE BitOr(_, _)
BitOr(a, b) ==
    IF a = 0 THEN b
    ELSE IF b = 0 THEN a
    ELSE (IF a % 2 = 1 \/ b % 2 = 1 THEN 1 ELSE 0) + 2 * BitOr(a \div 2, b \div 2)

AsU8(x) == x % 256

(***************************************************************************)
(* BlockVec (crates/utils/src/block_vec.rs).                               *)
(***************************************************************************)
EmptyBlock == [i \in 1..PageSize |-> None]

append_empty_blocks(bv, num_of_blocks) ==
    [bv EXCEPT !.blocks = @ \o [k \in 1..num_of_blocks |-> EmptyBlock]]

BlockVec_new == append_empty_blocks([number_of_items |-> 0, blocks |-> <<>>], 1)

blocks_len(bv) == Len(bv.blocks)

block_for_index(index) == index \div PageSize

corrected_index(index) == index - (block_for_index(index) * PageSize)

\* A set that rebuilds the pages when it grows.
set_regrow(bv, item, index) ==
    LET block_index == block_for_index(index)
        grown == IF block_index > Len(bv.blocks) - 1
                 THEN append_empty_blocks([bv EXCEPT !.blocks = <<>>], block_index + 1)
                 ELSE bv
    IN [grown EXCEPT !.blocks[block_index + 1][corrected_index(index) + 1] = Some(item)]

\* set: grows by block_index blocks when the block is out of range, then
\* stores Some(item).
set(bv, item, index) ==
    LET block_index == block_for_index(index)
        grown == IF block_index > Len(bv.blocks) - 1
                 THEN append_empty_blocks(bv, block_index)
                 ELSE bv
    IN [grown EXCEPT !.blocks[block_index + 1][corrected_index(index) + 1] = Some(item)]

\* The value set returns to the registry: whether the vector grew.
set_did_grow(bv, index) == block_for_index(index) > Len(bv.blocks) - 1

\* get: the guard is block_index > blocks_len, so the first index of the
\* first unallocated page indexes the page vector out of range and panics.
get_panics(bv, index) == block_for_index(index) = blocks_len(bv)

get(bv, index) ==
    IF block_for_index(index) > blocks_len(bv) THEN None
    ELSE bv.blocks[block_for_index(index) + 1][corrected_index(index) + 1]

\* get_inbouds: fails when the index lies beyond the allocated pages.
get_inbouds_is_ok(bv, index) == block_for_index(index) < blocks_len(bv)

get_inbouds(bv, index) ==
    bv.blocks[block_for_index(index) + 1][corrected_index(index) + 1]

\* len: the number_of_items field, which no function of BlockVec writes
\* after new.
len(bv) == bv.number_of_items

\* actual_len: the length of the vector including the empty slots.
actual_len(bv) == blocks_len(bv) * PageSize

(***************************************************************************)
(* State of a World (crates/ecs/src/world.rs) and of its two storages.     *)
(***************************************************************************)
VARIABLES
    components,            \* ComponentsStorage.components: TypeId -> column
    bitmasks,              \* ComponentsStorage.bitmasks: TypeId -> shift (u8)
    bit_masks,             \* EntitiesStorage.bit_masks: BlockVec<BitmaskType>
    number_of_entities,    \* World.number_of_entities
    number_of_components,  \* World.number_of_components
    free_entities,         \* World.free_entities (FIFO queue of entities)
    live,                  \* history: id -> entities returned by add_entity
                           \*   with that id and not removed since
    removed,               \* history: ids whose remove_entity returned and
                           \*   that add_entity has not returned since
    last,                  \* history: the last call of the driver thread, if it
                           \* was the last call made
    panicked,              \* the driver thread panicked (it makes no more calls)
    th,                    \* per thread: the call in progress and its locals
    c_readers,             \* threads holding the read lock of components
    calls,                 \* number of calls the threads have begun
    returned,              \* history: the add_entity calls of the threads
                           \*   that returned, with entity and bundle
    registrations,         \* history: number of World::register calls made
    queried,               \* the last query_by_bitmask call: its filter and
                           \*   the entity list it returned (None before)
    queue,                 \* Workers.queue: the tasks pushed and not popped
    sys,                   \* per dispatched system: its handles, the position
                           \*   of the worker that executes it and its locals
    finish,                \* TaskSync.finish of the token of each system
    wait,                  \* the wait call of the driver thread in progress
    waited,                \* history: the systems whose token a returned
                           \*   wait call covered
    idle_workers,          \* number of workers polling the queue
    col_readers,           \* read guards of columns held by iterators, as
                           \*   (system, handle position) pairs
    c_writer,              \* the thread holding the write lock of components
    col_writers,           \* the columns whose write lock that thread holds
    unique_components,     \* ComponentsStorage.unique_components: TypeId -> value
    unique_last,           \* history: per type, the value of the last
                           \*   register_unique call
    got,                   \* the last World::get call: its handle, or None when
                           \*   it panicked or no call was made
    vecs,                  \* BlockVecs used on their own (utils/block_vec.rs)
    bv_hist,               \* history of the calls made on vecs
    fresh_ids,             \* history: the ids taken from the counter of
                           \*   entities, in allocation order
    bm_lock,               \* the lock of EntitiesStorage.bit_masks: the
                           \*   threads holding its read guard and its writer
    scan                   \* the query_by_bitmask call in progress, and the
                           \*   tables bit_masks went through during it

world_vars == <<components, bitmasks, bit_masks, number_of_entities,
                number_of_components, free_entities>>
thread_vars == <<th, c_readers, calls, returned>>
sched_vars == <<queue, sys, finish, wait, waited, idle_workers>>
lock_vars == <<col_readers, c_writer, col_writers>>
extra_vars == <<unique_components, unique_last, got, vecs, bv_hist>>
scan_vars == <<bm_lock, scan>>
vars == <<components, bitmasks, bit_masks, number_of_entities,
          number_of_components, free_entities, live, removed, last, panicked,
          th, c_readers, calls, returned, registrations, queried,
          queue, sys, finish, wait, waited, idle_workers,
          col_readers, c_writer, col_writers,
          unique_components, unique_last, got, vecs, bv_hist, fresh_ids,
          bm_lock, scan>>

\* A map of the registry with one more entry (FxHashMap::insert).
insert(map, key, value) ==
    [k \in DOMAIN map \cup {key} |-> IF k = key THEN value ELSE map[k]]

(***************************************************************************)
(* ComponentsStorage (crates/ecs/src/component.rs).                        *)
(***************************************************************************)
\* The cell of a column: a lock around an optional component.
installed_cell(value) == Some(value)
empty_cell == None

\* sync_buffers: pads every column to the page count of the biggest.
RECURSIVE biggest_of(_, _, _)
biggest_of(comps, todo, biggest) ==
    IF todo = {} THEN biggest
    ELSE LET t == CHOOSE x \in todo : TRUE
         IN biggest_of(comps, todo \ {t},
                       IF biggest < blocks_len(comps[t]) THEN blocks_len(comps[t])
                       ELSE biggest)

sync_buffers(comps) ==
    LET biggest == biggest_of(comps, DOMAIN comps, 0)
    IN [t \in DOMAIN comps |->
            append_empty_blocks(comps[t], biggest - blocks_len(comps[t]))]

\* A register that leaves out the page synchronization.
storage_register_components_unsynced(comps, c0) == insert(comps, c0, BlockVec_new)

\* ComponentsStorage::register: a new column and the shift of the type,
\* then the page synchronization.
storage_register_components(comps, c0) == sync_buffers(insert(comps, c0, BlockVec_new))
storage_register_bitmasks(bms, c0, bitmask_shift) == insert(bms, c0, bitmask_shift)

\* ComponentsStorage::bitmask: 0b1 << shift.
bitmask(bms, type_id) == 2 ^ bms[type_id]

\* An add_new_component that creates the slot and leaves its cell empty.
add_new_component_empty(buffer, entity, component) ==
    set(buffer, empty_cell, entity)

\* add_new_component: installs a fresh cell under the column's write lock.
add_new_component(buffer, entity, component) ==
    set(buffer, installed_cell(component), entity)

\* One element of add_component / add_componentN: replace the value of an
\* existing cell in place, or install a new cell.
add_one_component(buffer, entity, component) ==
    IF get_inbouds_is_ok(buffer, entity) /\ IsSome(get_inbouds(buffer, entity))
    THEN [buffer EXCEPT
            !.blocks[block_for_index(entity) + 1][corrected_index(entity) + 1] =
                Some(installed_cell(component))]
    ELSE add_new_component(buffer, entity, component)

add_one_expands(buffer, entity) ==
    IF get_inbouds_is_ok(buffer, entity) /\ IsSome(get_inbouds(buffer, entity))
    THEN FALSE
    ELSE set_did_grow(buffer, entity)

\* add_component, add_component2 .. add_component9: the elements of the
\* bundle in order; an unregistered type panics where it stands, before the
\* page synchronization. The result is the registry and whether it panicked.
RECURSIVE add_component_loop(_, _, _, _, _)
add_component_loop(comps, entity, bundle, k, were_expansions) ==
    IF k > Len(bundle)
    THEN [components |-> IF were_expansions THEN sync_buffers(comps) ELSE comps,
          panicked |-> FALSE]
    ELSE IF bundle[k].type \notin DOMAIN comps
    THEN [components |-> comps, panicked |-> TRUE]
    ELSE add_component_loop(
            [comps EXCEPT ![bundle[k].type] =
                add_one_component(comps[bundle[k].type], entity, bundle[k].value)],
            entity, bundle, k + 1,
            were_expansions \/ add_one_expands(comps[bundle[k].type], entity))

add_component(comps, entity, bundle) == add_component_loop(comps, entity, bundle, 1, FALSE)

\* ComponentBundler::add_components: the OR of the bits of the bundle's types.
RECURSIVE bundle_bitmask(_, _, _)
bundle_bitmask(bms, bundle, k) ==
    IF k > Len(bundle) THEN 0
    ELSE BitOr(bitmask(bms, bundle[k].type), bundle_bitmask(bms, bundle, k + 1))

\* remove_components: walks the columns in the map's iteration order and
\* empties the cell of the entity where a cell exists; get panics on the
\* first column whose first unallocated page holds the id.
RECURSIVE remove_components_loop(_, _, _, _)
remove_components_loop(comps, order, k, entity) ==
    IF k > Len(order) THEN [components |-> comps, panicked |-> FALSE]
    ELSE IF get_panics(comps[order[k]], entity)
    THEN [components |-> comps, panicked |-> TRUE]
    ELSE IF IsSome(get(comps[order[k]], entity))
    THEN remove_components_loop(
            [comps EXCEPT ![order[k]].blocks[block_for_index(entity) + 1]
                                            [corrected_index(entity) + 1] =
                Some(empty_cell)],
            order, k + 1, entity)
    ELSE remove_components_loop(comps, order, k + 1, entity)

remove_components(comps, order, entity) == remove_components_loop(comps, order, 1, entity)

\* The iteration orders a map may have: the sequences without repetition
\* of its keys.
iteration_orders(map) ==
    {o \in [1..Cardinality(DOMAIN map) -> DOMAIN map] :
        \A i, j \in 1..Cardinality(DOMAIN map) : i # j => o[i] # o[j]}

(***************************************************************************)
(* EntitiesStorage (crates/ecs/src/entity.rs).                             *)
(***************************************************************************)
\* A reset that leaves the bitmask as it is.
reset_bitmask_kept(masks, entity) == masks

\* A scan that takes an id when it has any bit of the filter.
RECURSIVE query_loop_any(_, _, _, _)
query_loop_any(masks, filter, i, f_entities) ==
    IF i >= actual_len(masks) THEN f_entities
    ELSE query_loop_any(masks, filter, i + 1,
            IF IsSome(get(masks, i)) /\ BitAnd(Unwrap(get(masks, i)), filter) # 0
            THEN Append(f_entities, i)
            ELSE f_entities)

query_by_bitmask_any(masks, filter) == query_loop_any(masks, filter, 0, <<>>)

register_bitmask(masks, entity, bit_mask) == set(masks, bit_mask, entity)

reset_bitmask(masks, entity) == set(masks, 0, entity)

\* query_by_bitmask: the scan of 0..actual_len, in order.
RECURSIVE query_loop(_, _, _, _)
query_loop(masks, filter, i, f_entities) ==
    IF i >= actual_len(masks) THEN f_entities
    ELSE query_loop(masks, filter, i + 1,
            IF IsSome(get(masks, i)) /\ BitAnd(Unwrap(get(masks, i)), filter) = filter
            THEN Append(f_entities, i)
            ELSE f_entities)

query_by_bitmask(masks, filter) == query_loop(masks, filter, 0, <<>>)

(***************************************************************************)
(* World (crates/ecs/src/world.rs): the calls of one driver thread, each   *)
(* call one step. A panic unwinds the driver thread: it makes no more      *)
(* calls.                                                                  *)
(***************************************************************************)
\* The bundles a caller passes: tuples of components of distinct types.
\* The code never inspects a component value, so the value of the k-th
\* component of a call is a stamp no other call uses.
BundleTypes ==
    {b \in UNION {[1..n -> TypeIds] : n \in 1..Cardinality(TypeIds)} :
        \A i, j \in 1..Len(b) : i # j => b[i] # b[j]}

stamped(types, stamp) == [k \in 1..Len(types) |-> [type |-> types[k], value |-> stamp + k]]

bundle_types(bundle) == {bundle[k].type : k \in 1..Len(bundle)}

\* A thread between two calls.
Idle == [pc |-> "idle", entity |-> -1, bundle |-> <<>>, k |-> 0,
         were_expansions |-> FALSE, mask |-> 0, order |-> <<>>]

\* A system that was not dispatched, and the driver outside a wait call.
NoSystem == [pc |-> "none", handles |-> <<>>, bitmasks |-> 0, k |-> 0,
             entities |-> <<>>, counter |-> 0, after |-> {},
             dispatch |-> <<>>, observed |-> {}, overwritten |-> {},
             uniques |-> <<>>]

NoWait == [tokens |-> <<>>, k |-> 0, did_finish |-> TRUE]

NoCall == [op |-> "none", entity |-> -1, bundle |-> <<>>, type |-> "", recycled |-> FALSE]

\* No World::get call made, or the call panicked.
NoHandle == None

\* The lock of the bitmask table when free, and no query_by_bitmask call in
\* progress.
NoLock == [readers |-> {}, writer |-> 0]
NoScan == [pc |-> "none", thread |-> 0, bitmasks |-> 0, i |-> 0, actual_len |-> 0,
           f_entities |-> <<>>, tables |-> {}]

\* No call made on a BlockVec used on its own.
NoBvCall == [op |-> "none", vec |-> 0, index |-> 0, result |-> <<>>,
             before |-> <<>>, refs |-> <<>>, written |-> <<>>, top |-> <<>>,
             synced |-> {}]

Init ==
    /\ components = [t \in {} |-> BlockVec_new]
    /\ bitmasks = [t \in {} |-> 0]
    /\ bit_masks = BlockVec_new
    /\ number_of_entities = 0
    /\ number_of_components = 0
    /\ free_entities = <<>>
    /\ live = [i \in IssuableIds |-> 0]
    /\ removed = {}
    /\ last = NoCall
    /\ panicked = FALSE
    /\ th = [t \in Threads |-> Idle]
    /\ c_readers = {}
    /\ calls = 0
    /\ returned = {}
    /\ registrations = 0
    /\ queried = None
    /\ queue = <<>>
    /\ sys = [s \in SystemIds |-> NoSystem]
    /\ finish = [s \in SystemIds |-> FALSE]
    /\ wait = NoWait
    /\ waited = {}
    /\ idle_workers = NumWorkers
    /\ col_readers = {}
    /\ c_writer = 0
    /\ col_writers = {}
    /\ unique_components = <<>>
    /\ unique_last = <<>>
    /\ got = NoHandle
    /\ vecs = <<>>
    /\ bv_hist = NoBvCall
    /\ bm_lock = NoLock
    /\ scan = NoScan
    /\ fresh_ids = <<>>

\* An id allocation that never reuses a queued id.
generate_entity_id_fresh(free, counter) == counter

\* generate_entity: the head of the free queue, or the counter.
generate_entity_id(free, counter) == IF free # <<>> THEN Head(free) ELSE counter
generate_entity_free(free) == IF free # <<>> THEN Tail(free) ELSE free
generate_entity_counter(free, counter) == IF free # <<>> THEN counter ELSE counter + 1

\* World::register.
Register(c0) ==
    /\ ~panicked
    /\ calls = 0
    /\ number_of_components + 1 <= MaxNumberOfComponents
    /\ number_of_components' = number_of_components + 1
    /\ components' = storage_register_components(components, c0)
    /\ bitmasks' = storage_register_bitmasks(bitmasks, c0, AsU8(number_of_components))
    /\ last' = [NoCall EXCEPT !.op = "register", !.type = c0]
    /\ registrations' = registrations + 1
    /\ UNCHANGED <<bit_masks, number_of_entities, free_entities, live, removed, panicked>>
    /\ UNCHANGED <<thread_vars, queried, sched_vars, lock_vars, extra_vars, fresh_ids,
                   scan_vars>>

\* A bitmask written before the components are added: the bits of the
\* registered types of the bundle, whether add_components panics or not.
add_entity_bitmask_first(masks, bms, entity, bundle, did_panic) ==
    register_bitmask(masks, entity,
        bundle_bitmask(bms, SelectSeq(bundle, LAMBDA c : c.type \in DOMAIN bms), 1))

\* add_entity: register_bitmask with the bitmask add_components returned;
\* not reached when add_components panicked.
add_entity_bitmask(masks, bms, entity, bundle, did_panic) ==
    IF did_panic THEN masks
    ELSE register_bitmask(masks, entity, bundle_bitmask(bms, bundle, 1))

\* World::add_entity.
AddEntity(types) ==
    LET bundle == stamped(types, number_of_components)
        entity == generate_entity_id(free_entities, number_of_entities)
        added == add_component(components, entity, bundle)
    IN /\ ~panicked
       /\ calls = 0
       /\ number_of_components + Len(bundle) <= MaxNumberOfComponents
       /\ free_entities # <<>> \/ number_of_entities <= MaxEntityId
       /\ number_of_components' = number_of_components + Len(bundle)
       /\ free_entities' = generate_entity_free(free_entities)
       /\ number_of_entities' = generate_entity_counter(free_entities, number_of_entities)
       /\ components' = added.components
       /\ panicked' = added.panicked
       /\ last' = [NoCall EXCEPT !.op = "add_entity", !.entity = entity,
                                 !.bundle = bundle, !.recycled = (free_entities # <<>>)]
       /\ bit_masks' = add_entity_bitmask(bit_masks, bitmasks, entity, bundle,
                                          added.panicked)
       /\ IF added.panicked
          THEN UNCHANGED <<live, removed>>
          ELSE /\ live' = [live EXCEPT ![entity] = @ + 1]
               /\ removed' = removed \ {entity}
       /\ fresh_ids' = IF free_entities # <<>> THEN fresh_ids
                       ELSE Append(fresh_ids, entity)
       /\ UNCHANGED bitmasks
       /\ UNCHANGED <<thread_vars, registrations, scan_vars, extra_vars, queried, sched_vars,
                      lock_vars>>

\* World::remove_entity.
RemoveEntity(entity) ==
    /\ ~panicked
    /\ calls = 0
    /\ Len(free_entities) < MaxFree
    /\ bit_masks' = reset_bitmask(bit_masks, entity)
    /\ \E order \in iteration_orders(components) :
          LET cleared == remove_components(components, order, entity)
          IN /\ components' = cleared.components
             /\ panicked' = cleared.panicked
             /\ IF cleared.panicked
                THEN UNCHANGED <<free_entities, live, removed>>
                ELSE /\ free_entities' = Append(free_entities, entity)
                     /\ live' = [live EXCEPT ![entity] = 0]
                     /\ removed' = removed \cup {entity}
    /\ last' = [NoCall EXCEPT !.op = "remove_entity", !.entity = entity]
    /\ UNCHANGED <<bitmasks, number_of_entities, number_of_components>>
    /\ UNCHANGED <<thread_vars, registrations, scan_vars, extra_vars, fresh_ids, queried, sched_vars, lock_vars>>

Next ==
    \/ \E c0 \in TypeIds : Register(c0)
    \/ \E types \in BundleTypes : AddEntity(types)
    \/ \E entity \in EntityIds : RemoveEntity(entity)

Spec == Init /\ [][Next]_vars

(***************************************************************************)
(* The same calls made by concurrent threads on a shared world, after the  *)
(* driver thread has set the world up. A step is one atomic operation or   *)
(* one critical section. The read lock of components is held across steps  *)
(* and is a variable; the write lock of components, the locks of a column  *)
(* and of a cell are taken and released inside one step. A thread that     *)
(* panics drops its guards and stops.                                      *)
(***************************************************************************)
\* The counter of entity ids after a fetch_add(1).
next_entity_counter_stuck(counter) == counter

next_entity_counter(counter) == counter + 1

\* The threads that are about to take an id, and those inside a removal
\* (between reset_bitmask and the return).
Generating == {u \in Threads : th[u].pc \in {"generate", "fresh"}}

Removing(t) == th[t].pc \in {"rm_lock", "rm_cell", "rm_push"}

\* The read guards iterators of systems hold on the column of a type.
column_readers(type) == {g \in col_readers : sys[g[1]].handles[g[2]].type = type}

\* add_entity: fetch_add of the number of components.
AddBegin(t, types) ==
    /\ ~panicked
    /\ th[t].pc = "idle"
    /\ calls < MaxThreadCalls
    /\ number_of_components + Len(types) <= MaxNumberOfComponents
    /\ \/ free_entities # <<>>
       \/ number_of_entities + Cardinality(Generating) <= MaxEntityId
    /\ calls' = calls + 1
    /\ number_of_components' = number_of_components + Len(types)
    /\ th' = [th EXCEPT ![t] = [Idle EXCEPT !.pc = "generate",
                                            !.bundle = stamped(types, number_of_components)]]
    /\ last' = NoCall
    /\ UNCHANGED <<components, bitmasks, bit_masks, number_of_entities, free_entities,
                   live, removed, panicked, c_readers, returned,
                   registrations, scan_vars, extra_vars, fresh_ids, queried, sched_vars, lock_vars>>

\* generate_entity: free_entities.pop().
AddPop(t) ==
    /\ th[t].pc = "generate"
    /\ IF free_entities # <<>>
       THEN /\ free_entities' = Tail(free_entities)
            /\ th' = [th EXCEPT ![t].pc = "lock", ![t].entity = Head(free_entities)]
       ELSE /\ th' = [th EXCEPT ![t].pc = "fresh"]
            /\ UNCHANGED free_entities
    /\ UNCHANGED <<components, bitmasks, bit_masks, number_of_entities,
                   number_of_components, live, removed, last, panicked, c_readers,
                   calls, returned,
                   registrations, scan_vars, extra_vars, fresh_ids, queried, sched_vars, lock_vars>>

\* generate_entity: number_of_entities.fetch_add(1).
AddFresh(t) ==
    /\ th[t].pc = "fresh"
    /\ number_of_entities' = next_entity_counter(number_of_entities)
    /\ th' = [th EXCEPT ![t].pc = "lock", ![t].entity = number_of_entities]
    /\ fresh_ids' = Append(fresh_ids, number_of_entities)
    /\ UNCHANGED <<components, bitmasks, bit_masks, number_of_components, free_entities,
                   live, removed, last, panicked, c_readers, calls, returned,
                   registrations, scan_vars, extra_vars, queried, sched_vars, lock_vars>>

\* add_component: components.read().
AddLock(t) ==
    /\ th[t].pc = "lock"
    /\ c_writer = 0
    /\ c_readers' = c_readers \cup {t}
    /\ th' = [th EXCEPT ![t].pc = "elem", ![t].k = 1]
    /\ UNCHANGED <<world_vars, live, removed, last, panicked, calls, returned,
                   registrations, scan_vars, extra_vars, fresh_ids, queried, sched_vars, lock_vars>>

\* add_component: the next element of the bundle under the column's read
\* lock: panic on an unregistered type, write an existing cell in place,
\* or drop the read lock to install a new cell; after the last element
\* the read lock of components is dropped.
AddElem(t) ==
    LET k == th[t].k
        bundle == th[t].bundle
        entity == th[t].entity
    IN /\ th[t].pc = "elem"
       /\ IF k > Len(bundle)
          THEN /\ c_readers' = c_readers \ {t}
               /\ th' = [th EXCEPT ![t].pc = IF th[t].were_expansions THEN "sync"
                                             ELSE "bitmask",
                                   ![t].k = 1]
               /\ UNCHANGED components
          ELSE IF bundle[k].type \notin DOMAIN components
          THEN /\ c_readers' = c_readers \ {t}
               /\ th' = [th EXCEPT ![t].pc = "panicked"]
               /\ UNCHANGED components
          ELSE IF /\ get_inbouds_is_ok(components[bundle[k].type], entity)
                  /\ IsSome(get_inbouds(components[bundle[k].type], entity))
          THEN /\ components' = [components EXCEPT ![bundle[k].type] =
                                    add_one_component(@, entity, bundle[k].value)]
               /\ th' = [th EXCEPT ![t].k = k + 1]
               /\ UNCHANGED c_readers
          ELSE /\ th' = [th EXCEPT ![t].pc = "elem_new"]
               /\ UNCHANGED <<components, c_readers>>
       /\ UNCHANGED <<bitmasks, bit_masks, number_of_entities, number_of_components,
                      free_entities, live, removed, last, panicked, calls, returned,
                   registrations, scan_vars, extra_vars, fresh_ids, queried, sched_vars, lock_vars>>

\* add_new_component: set under the column's write lock.
AddNew(t) ==
    LET k == th[t].k
        bundle == th[t].bundle
    IN /\ th[t].pc = "elem_new"
       /\ column_readers(bundle[k].type) = {}
       /\ components' = [components EXCEPT ![bundle[k].type] =
                            add_new_component(@, th[t].entity, bundle[k].value)]
       /\ th' = [th EXCEPT ![t].pc = "elem", ![t].k = k + 1,
                           ![t].were_expansions =
                               @ \/ set_did_grow(components[bundle[k].type], th[t].entity)]
       /\ UNCHANGED <<bitmasks, bit_masks, number_of_entities, number_of_components,
                      free_entities, live, removed, last, panicked, c_readers, calls,
                      returned,
                   registrations, scan_vars, extra_vars, fresh_ids, queried, sched_vars, lock_vars>>

\* sync_buffers under the write lock of components and of every column,
\* as one step, taken when every lock is free.
AddSync(t) ==
    /\ th[t].pc = "sync"
    /\ c_readers = {}
    /\ c_writer = 0
    /\ col_readers = {}
    /\ components' = sync_buffers(components)
    /\ th' = [th EXCEPT ![t].pc = "bitmask", ![t].k = 1]
    /\ UNCHANGED <<bitmasks, bit_masks, number_of_entities, number_of_components,
                   free_entities, live, removed, last, panicked, c_readers, calls,
                   returned,
                   registrations, scan_vars, extra_vars, fresh_ids, queried, sched_vars, lock_vars>>

\* add_components: handler.bitmask(type) of the next element, OR-ed.
AddBitmask(t) ==
    LET k == th[t].k
        bundle == th[t].bundle
    IN /\ th[t].pc = "bitmask"
       /\ k <= Len(bundle)
       /\ th' = [th EXCEPT ![t].k = k + 1,
                           ![t].mask = BitOr(@, bitmask(bitmasks, bundle[k].type)),
                           ![t].pc = IF k = Len(bundle) THEN "register_bitmask"
                                     ELSE "bitmask"]
       /\ UNCHANGED <<world_vars, live, removed, last, panicked, c_readers, calls,
                      returned,
                   registrations, scan_vars, extra_vars, fresh_ids, queried, sched_vars, lock_vars>>

\* register_bitmask, and the return of the entity.
AddReturn(t) ==
    /\ th[t].pc = "register_bitmask"
    /\ bit_masks' = register_bitmask(bit_masks, th[t].entity, th[t].mask)
    /\ live' = [live EXCEPT ![th[t].entity] = @ + 1]
    /\ removed' = removed \ {th[t].entity}
    /\ returned' = returned \cup {[entity |-> th[t].entity, bundle |-> th[t].bundle]}
    /\ th' = [th EXCEPT ![t] = Idle]
    /\ UNCHANGED <<components, bitmasks, number_of_entities, number_of_components,
                   free_entities, last, panicked, c_readers, calls,
                   registrations, scan_vars, extra_vars, fresh_ids, queried, sched_vars, lock_vars>>

\* remove_entity: reset_bitmask.
RemoveBegin(t, entity) ==
    /\ ~panicked
    /\ th[t].pc = "idle"
    /\ calls < MaxThreadCalls
    /\ Len(free_entities) + Cardinality({u \in Threads : Removing(u)}) < MaxFree
    /\ calls' = calls + 1
    /\ bit_masks' = reset_bitmask(bit_masks, entity)
    /\ th' = [th EXCEPT ![t] = [Idle EXCEPT !.pc = "rm_lock", !.entity = entity]]
    /\ last' = NoCall
    /\ UNCHANGED <<components, bitmasks, number_of_entities, number_of_components,
                   free_entities, live, removed, panicked, c_readers, returned,
                   registrations, scan_vars, extra_vars, fresh_ids, queried, sched_vars, lock_vars>>

\* remove_components: components.read(), and the iteration order of the map.
RemoveLock(t) ==
    /\ th[t].pc = "rm_lock"
    /\ c_writer = 0
    /\ c_readers' = c_readers \cup {t}
    /\ \E order \in iteration_orders(components) :
          th' = [th EXCEPT ![t].pc = "rm_cell", ![t].k = 1, ![t].order = order]
    /\ UNCHANGED <<world_vars, live, removed, last, panicked, calls, returned,
                   registrations, scan_vars, extra_vars, fresh_ids, queried, sched_vars, lock_vars>>

\* remove_components: the next column; after the last one the read lock of
\* components is dropped.
RemoveCell(t) ==
    LET k == th[t].k
        order == th[t].order
        entity == th[t].entity
    IN /\ th[t].pc = "rm_cell"
       /\ IF k > Len(order)
          THEN /\ c_readers' = c_readers \ {t}
               /\ th' = [th EXCEPT ![t].pc = "rm_push"]
               /\ UNCHANGED components
          ELSE IF get_panics(components[order[k]], entity)
          THEN /\ c_readers' = c_readers \ {t}
               /\ th' = [th EXCEPT ![t].pc = "panicked"]
               /\ UNCHANGED components
          ELSE /\ components' =
                     remove_components(components, <<order[k]>>, entity).components
               /\ th' = [th EXCEPT ![t].k = k + 1]
               /\ UNCHANGED c_readers
       /\ UNCHANGED <<bitmasks, bit_masks, number_of_entities, number_of_components,
                      free_entities, live, removed, last, panicked, calls, returned,
                   registrations, scan_vars, extra_vars, fresh_ids, queried, sched_vars, lock_vars>>

\* remove_entity: free_entities.push(entity), and the return.
RemovePush(t) ==
    /\ th[t].pc = "rm_push"
    /\ free_entities' = Append(free_entities, th[t].entity)
    /\ live' = [live EXCEPT ![th[t].entity] = 0]
    /\ removed' = removed \cup {th[t].entity}
    /\ th' = [th EXCEPT ![t] = Idle]
    /\ UNCHANGED <<components, bitmasks, bit_masks, number_of_entities,
                   number_of_components, last, panicked, c_readers, calls, returned,
                   registrations, scan_vars, extra_vars, fresh_ids, queried, sched_vars, lock_vars>>

AddSteps(t) ==
    \/ AddPop(t) \/ AddFresh(t) \/ AddLock(t) \/ AddElem(t) \/ AddNew(t)
    \/ AddSync(t) \/ AddBitmask(t) \/ AddReturn(t)

RemoveSteps(t) ==
    \/ RemoveLock(t) \/ RemoveCell(t) \/ RemovePush(t)

\* Threads that add entities of registered types to a world the driver
\* thread has registered types in and added entities to.
NextAdd ==
    \/ \E c0 \in TypeIds : Register(c0)
    \/ \E types \in BundleTypes : AddEntity(types)
    \/ \E t \in Threads : \E types \in BundleTypes :
          bundle_types(stamped(types, 0)) \subseteq DOMAIN components /\ AddBegin(t, types)
    \/ \E t \in Threads : AddSteps(t)

SpecAdd == Init /\ [][NextAdd]_vars

\* Threads that add and remove entities in a world the driver thread has
\* set up with any calls.
NextThreads ==
    \/ Next
    \/ \E t \in Threads : \E types \in BundleTypes : AddBegin(t, types)
    \/ \E t \in Threads : \E entity \in EntityIds : RemoveBegin(t, entity)
    \/ \E t \in Threads : AddSteps(t) \/ RemoveSteps(t)

SpecThreads == Init /\ [][NextThreads]_vars

(***************************************************************************)
(* query_by_bitmask on its own: applied with every filter to every         *)
(* bitmask table of the bounded shapes (each slot never written, or        *)
(* written with any bitmask).                                              *)
(***************************************************************************)
QueryMasks == 0..((2 ^ MaxQueryBits) - 1)

QueryTables ==
    UNION {[blocks : [1..n -> [1..PageSize -> {None} \cup {Some(m) : m \in QueryMasks}]],
            number_of_items : {0}] : n \in 1..MaxQueryPages}

InitQuery ==
    /\ components = <<>>
    /\ bitmasks = <<>>
    /\ bit_masks \in QueryTables
    /\ number_of_entities = 0
    /\ number_of_components = 0
    /\ free_entities = <<>>
    /\ live = [i \in IssuableIds |-> 0]
    /\ removed = {}
    /\ last = NoCall
    /\ panicked = FALSE
    /\ th = [t \in Threads |-> Idle]
    /\ c_readers = {}
    /\ calls = 0
    /\ returned = {}
    /\ registrations = 0
    /\ queried = None
    /\ queue = <<>>
    /\ sys = [s \in SystemIds |-> NoSystem]
    /\ finish = [s \in SystemIds |-> FALSE]
    /\ wait = NoWait
    /\ waited = {}
    /\ idle_workers = NumWorkers
    /\ col_readers = {}
    /\ c_writer = 0
    /\ col_writers = {}
    /\ unique_components = <<>>
    /\ unique_last = <<>>
    /\ got = NoHandle
    /\ vecs = <<>>
    /\ bv_hist = NoBvCall
    /\ bm_lock = NoLock
    /\ scan = NoScan
    /\ fresh_ids = <<>>

Query(filter) ==
    /\ queried' = Some([bitmasks |-> filter,
                        f_entities |-> query_by_bitmask(bit_masks, filter)])
    /\ UNCHANGED <<world_vars, live, removed, last, panicked, thread_vars, registrations, scan_vars, extra_vars, fresh_ids,
                   sched_vars, lock_vars>>

NextQuery == \E filter \in QueryMasks : Query(filter)

SpecQuery == InitQuery /\ [][NextQuery]_vars

(***************************************************************************)
(* query_by_bitmask element by element under the read lock of bit_masks,   *)
(* while threads call register_bitmask and reset_bitmask, which set under  *)
(* the write lock (crates/ecs/src/entity.rs).                              *)
(***************************************************************************)
\* The thread that scans.
Scanner == 1

\* A write lock granted while read guards are held.
write_lock_ignores_readers(lock) == lock.writer = 0

\* RwLock::write is granted when no guard is held, RwLock::read when no
\* write guard is held.
write_lock_free(lock) == lock.readers = {} /\ lock.writer = 0
read_lock_free(lock) == lock.writer = 0

\* The tables bit_masks went through during the scan in progress.
scan_tables(masks) ==
    IF scan.pc = "scan" THEN [scan EXCEPT !.tables = @ \cup {masks}] ELSE scan

\* register_bitmask: bit_masks.write(), set, and the drop of the guard.
BmRegister(entity, bit_mask) ==
    /\ write_lock_free(bm_lock)
    /\ bit_masks' = register_bitmask(bit_masks, entity, bit_mask)
    /\ scan' = scan_tables(bit_masks')
    /\ UNCHANGED <<components, bitmasks, number_of_entities, number_of_components,
                   free_entities, live, removed, last, panicked, thread_vars,
                   registrations, queried, sched_vars, lock_vars, extra_vars,
                   fresh_ids, bm_lock>>

\* reset_bitmask: bit_masks.write(), set of 0, and the drop of the guard.
BmReset(entity) ==
    /\ write_lock_free(bm_lock)
    /\ bit_masks' = reset_bitmask(bit_masks, entity)
    /\ scan' = scan_tables(bit_masks')
    /\ UNCHANGED <<components, bitmasks, number_of_entities, number_of_components,
                   free_entities, live, removed, last, panicked, thread_vars,
                   registrations, queried, sched_vars, lock_vars, extra_vars,
                   fresh_ids, bm_lock>>

\* query_by_bitmask: bit_masks.read() and actual_len().
ScanBegin(filter) ==
    /\ scan.pc # "scan"
    /\ read_lock_free(bm_lock)
    /\ bm_lock' = [bm_lock EXCEPT !.readers = @ \cup {Scanner}]
    /\ scan' = [pc |-> "scan", thread |-> Scanner, bitmasks |-> filter, i |-> 0,
                actual_len |-> actual_len(bit_masks), f_entities |-> <<>>,
                tables |-> {bit_masks}]
    /\ UNCHANGED <<world_vars, live, removed, last, panicked, thread_vars,
                   registrations, queried, sched_vars, lock_vars, extra_vars,
                   fresh_ids>>

\* query_by_bitmask: one turn of the loop over 0..actual_len.
ScanStep ==
    /\ scan.pc = "scan"
    /\ scan.i < scan.actual_len
    /\ scan' = [scan EXCEPT
                   !.i = @ + 1,
                   !.f_entities =
                       IF /\ IsSome(get(bit_masks, scan.i))
                          /\ BitAnd(Unwrap(get(bit_masks, scan.i)), scan.bitmasks)
                                = scan.bitmasks
                       THEN Append(@, scan.i)
                       ELSE @]
    /\ UNCHANGED <<world_vars, live, removed, last, panicked, thread_vars,
                   registrations, queried, sched_vars, lock_vars, extra_vars,
                   fresh_ids, bm_lock>>

\* query_by_bitmask: the return of f_entities; the read guard is dropped.
ScanEnd ==
    /\ scan.pc = "scan"
    /\ scan.i >= scan.actual_len
    /\ scan' = [scan EXCEPT !.pc = "done"]
    /\ bm_lock' = [bm_lock EXCEPT !.readers = @ \ {Scanner}]
    /\ queried' = Some([bitmasks |-> scan.bitmasks, f_entities |-> scan.f_entities])
    /\ UNCHANGED <<world_vars, live, removed, last, panicked, thread_vars,
                   registrations, sched_vars, lock_vars, extra_vars, fresh_ids>>

NextScan ==
    \/ \E entity \in EntityIds : \E bit_mask \in QueryMasks : BmRegister(entity, bit_mask)
    \/ \E entity \in EntityIds : BmReset(entity)
    \/ \E filter \in QueryMasks : ScanBegin(filter)
    \/ ScanStep
    \/ ScanEnd

SpecScan == Init /\ [][NextScan]_vars

(***************************************************************************)
(* Views (crates/ecs/src/system.rs, access.rs): the filter of a system,    *)
(* its entity list and the iteration of one view over that list.           *)
(***************************************************************************)
\* The filter of a system: the OR of the bits of its filtered handles.
RECURSIVE system_bitmasks(_, _)
system_bitmasks(bms, handles) ==
    IF handles = {} THEN 0
    ELSE LET t == CHOOSE x \in handles : TRUE
         IN BitOr(bitmask(bms, t), system_bitmasks(bms, handles \ {t}))

\* generate_system: the filter of a system from its handles in order; a
\* handle is a component type and whether it is a unique handle, and only
\* the handles that are not unique add the bit of their type.
RECURSIVE generate_system_bitmasks(_, _, _)
generate_system_bitmasks(bms, handles, k) ==
    IF k > Len(handles) THEN 0
    ELSE BitOr(IF ~handles[k].is_unique THEN bitmask(bms, handles[k].type) ELSE 0,
               generate_system_bitmasks(bms, handles, k + 1))

\* The handles of a system: one or two handles, each filtered or unique.
Handles ==
    UNION {[1..n -> [type : TypeIds, is_unique : BOOLEAN]] : n \in 1..Cardinality(TypeIds)}

filtered_types(handles) == {handles[k].type : k \in {j \in 1..Len(handles) : ~handles[j].is_unique}}

\* ReadAccessIterator / WriteAccessIterator next(), to the end of the list:
\* the ids that got an accessor, and whether the iteration panicked on a
\* missing or empty cell.
RECURSIVE access_iterator(_, _, _, _)
access_iterator(buffer, entities, counter, yielded) ==
    IF counter > Len(entities) THEN [yielded |-> yielded, panicked |-> FALSE]
    ELSE IF \/ get_panics(buffer, entities[counter])
            \/ ~IsSome(get(buffer, entities[counter]))
            \/ ~IsSome(Unwrap(get(buffer, entities[counter])))
    THEN [yielded |-> yielded, panicked |-> TRUE]
    ELSE access_iterator(buffer, entities, counter + 1,
                         Append(yielded, entities[counter]))

(***************************************************************************)
(* Systems (crates/ecs/src/world.rs run, system.rs, access.rs, query.rs),  *)
(* their tokens (sync.rs) and the worker pool (crates/tasks/src/           *)
(* workers.rs). run pushes a task and returns its token; a worker pops the *)
(* task, builds the handles of the system, calls the user function, which  *)
(* iterates the zip of its views, and signals the token. A step of a       *)
(* worker is one critical section; the read guard an iterator holds on its *)
(* column is held across steps. A system that panics unwinds its worker:   *)
(* the guards are dropped, the token is never signalled and the worker     *)
(* thread ends.                                                            *)
(***************************************************************************)
\* The filtered handles Read<T> and Write<T>.
Read(t) == [type |-> t, is_unique |-> FALSE, write |-> FALSE]
Write(t) == [type |-> t, is_unique |-> FALSE, write |-> TRUE]

\* The systems the driver dispatches: a writer of A, a reader of A, and a
\* system that zips a view of A with a view of B.
Systems == {<<Write("A")>>, <<Read("A")>>, <<Read("A"), Write("B")>>}

\* A token that starts signalled.
TaskSync_default_done == TRUE

\* TaskSync::default: the flag of a new token.
TaskSync_default == FALSE

\* TaskSync::mark_as_finish: finish.swap(true).
mark_as_finish(flag) == TRUE

\* A load that does not look at the flag.
finish_load_stale(flag) == TRUE

\* wait: finish.load() of one token.
finish_load(flag) == flag

\* An accumulation that is satisfied by any one token.
did_finish_or(did_finish, loaded) == did_finish \/ loaded

\* wait: did_finish &= load.
did_finish_and(did_finish, loaded) == did_finish /\ loaded

\* The value the user function of system s writes through a Writter.
system_stamp(s) == 0 - s

\* Writter::write: the component of the cell replaced in place.
writter_write(buffer, entity, value) ==
    [buffer EXCEPT !.blocks[block_for_index(entity) + 1][corrected_index(entity) + 1] =
                       Some(installed_cell(value))]

\* An iteration that ends at a missing or empty cell instead of failing.
RECURSIVE zip_next_ends(_, _, _, _, _, _)
zip_next_ends(handles, entities, counter, stamp, k, acc) ==
    IF k > Len(handles) THEN acc
    ELSE IF handles[k].is_unique
    THEN zip_next_ends(handles, entities, counter, stamp, k + 1, acc)
    ELSE IF counter > Len(entities[k]) THEN [acc EXCEPT !.status = "none"]
    ELSE LET entity == entities[k][counter]
             type == handles[k].type
             buffer == acc.components[type]
         IN IF \/ get_panics(buffer, entity)
               \/ ~IsSome(get(buffer, entity))
               \/ ~IsSome(Unwrap(get(buffer, entity)))
            THEN [acc EXCEPT !.status = "none"]
            ELSE LET seen == [type |-> type, entity |-> entity,
                              value |-> Unwrap(Unwrap(get(buffer, entity)))]
                 IN zip_next_ends(handles, entities, counter, stamp, k + 1,
                                  IF handles[k].write
                                  THEN [acc EXCEPT !.components[type] =
                                                       writter_write(@, entity, stamp),
                                                   !.overwritten = @ \cup {seen}]
                                  ELSE [acc EXCEPT !.observed = @ \cup {seen}])

\* TupleAccessIterator::next and the body of the user function for one
\* tuple: the views advance in handle order, each on its own entity list;
\* the first list that is exhausted ends the iteration ("none"), a missing
\* or empty cell panics; when every view yielded an accessor the body
\* writes the stamp through every Writter and reads every Reader.
RECURSIVE zip_next(_, _, _, _, _, _)
zip_next(handles, entities, counter, stamp, k, acc) ==
    IF k > Len(handles) THEN acc
    ELSE IF handles[k].is_unique
    THEN zip_next(handles, entities, counter, stamp, k + 1, acc)
    ELSE IF counter > Len(entities[k]) THEN [acc EXCEPT !.status = "none"]
    ELSE LET entity == entities[k][counter]
             type == handles[k].type
             buffer == acc.components[type]
         IN IF \/ get_panics(buffer, entity)
               \/ ~IsSome(get(buffer, entity))
               \/ ~IsSome(Unwrap(get(buffer, entity)))
            THEN [acc EXCEPT !.status = "panic"]
            ELSE LET seen == [type |-> type, entity |-> entity,
                              value |-> Unwrap(Unwrap(get(buffer, entity)))]
                 IN zip_next(handles, entities, counter, stamp, k + 1,
                             IF handles[k].write
                             THEN [acc EXCEPT !.components[type] =
                                                  writter_write(@, entity, stamp),
                                              !.overwritten = @ \cup {seen}]
                             ELSE [acc EXCEPT !.observed = @ \cup {seen}])

\* The systems dispatched so far, and the guards a system holds.
Dispatched == {s \in SystemIds : sys[s].pc # "none"}

guards_of(s) == {g \in col_readers : g[1] = s}

\* World::run: the token is created, the task is pushed, the token is
\* returned. The entity list of the filter at this moment is recorded.
Run(handles) ==
    /\ ~panicked
    /\ wait = NoWait
    /\ Dispatched # SystemIds
    /\ LET s == Cardinality(Dispatched) + 1
       IN /\ sys' = [sys EXCEPT ![s] =
                        [NoSystem EXCEPT
                            !.pc = "queued",
                            !.handles = handles,
                            !.after = waited,
                            !.dispatch =
                                IF filtered_types(handles) \subseteq DOMAIN bitmasks
                                THEN query_by_bitmask(bit_masks,
                                         generate_system_bitmasks(bitmasks, handles, 1))
                                ELSE <<>>]]
          /\ finish' = [finish EXCEPT ![s] = TaskSync_default]
          /\ queue' = Append(queue, s)
    /\ UNCHANGED <<world_vars, live, removed, last, panicked, thread_vars,
                   registrations, scan_vars, extra_vars, fresh_ids, queried, wait, waited, idle_workers, lock_vars>>

\* worker_loop: t_queue.pop() returned a task.
WorkerPop ==
    /\ idle_workers > 0
    /\ queue # <<>>
    /\ idle_workers' = idle_workers - 1
    /\ queue' = Tail(queue)
    /\ sys' = [sys EXCEPT ![Head(queue)].pc = "bitmasks"]
    /\ UNCHANGED <<world_vars, live, removed, last, panicked, thread_vars,
                   registrations, scan_vars, extra_vars, fresh_ids, queried, finish, wait, waited, lock_vars>>

\* System::run: the filter; bitmask() panics on an unregistered type.
SysBitmasks(s) ==
    /\ sys[s].pc = "bitmasks"
    /\ IF filtered_types(sys[s].handles) \subseteq DOMAIN bitmasks
       THEN sys' = [sys EXCEPT ![s].pc = "query", ![s].k = 1,
                               ![s].bitmasks =
                                   generate_system_bitmasks(bitmasks, sys[s].handles, 1)]
       ELSE sys' = [sys EXCEPT ![s].pc = "panicked"]
    /\ UNCHANGED <<world_vars, live, removed, last, panicked, thread_vars,
                   registrations, scan_vars, extra_vars, fresh_ids, queried, queue, finish, wait, waited,
                   idle_workers, lock_vars>>

\* System::run: query_by_bitmask(bitmasks) for the next handle.
SysQuery(s) ==
    /\ sys[s].pc = "query"
    /\ ~sys[s].handles[sys[s].k].is_unique
    /\ sys' = [sys EXCEPT ![s].pc = "buffer",
                          ![s].entities =
                              Append(@, query_by_bitmask(bit_masks, sys[s].bitmasks))]
    /\ UNCHANGED <<world_vars, live, removed, last, panicked, thread_vars,
                   registrations, scan_vars, extra_vars, fresh_ids, queried, queue, finish, wait, waited,
                   idle_workers, lock_vars>>

\* System::run: component_buffer(type) of the handle under the read lock of
\* components, a panic when the type has no column; after the last handle
\* the user function is called.
SysBuffer(s) ==
    LET k == sys[s].k
    IN /\ sys[s].pc = "buffer"
       /\ c_writer = 0
       /\ IF sys[s].handles[k].type \notin DOMAIN components
          THEN sys' = [sys EXCEPT ![s].pc = "panicked"]
          ELSE IF k < Len(sys[s].handles)
          THEN sys' = [sys EXCEPT ![s].pc = "query", ![s].k = k + 1]
          ELSE sys' = [sys EXCEPT ![s].pc = "iter", ![s].k = 1]
       /\ UNCHANGED <<world_vars, live, removed, last, panicked, thread_vars,
                      registrations, scan_vars, extra_vars, fresh_ids, queried, queue, finish, wait, waited,
                      idle_workers, lock_vars>>

\* The user function: iter() of the next view takes the read lock of its
\* column, which it keeps to the end of the iteration.
SysIter(s) ==
    LET k == sys[s].k
    IN /\ sys[s].pc = "iter"
       /\ IF sys[s].handles[k].is_unique
          THEN UNCHANGED col_readers
          ELSE /\ sys[s].handles[k].type \notin col_writers
               /\ col_readers' = col_readers \cup {<<s, k>>}
       /\ IF k < Len(sys[s].handles)
          THEN sys' = [sys EXCEPT ![s].k = k + 1]
          ELSE sys' = [sys EXCEPT ![s].pc = "next", ![s].counter = 1]
       /\ UNCHANGED <<world_vars, live, removed, last, panicked, thread_vars,
                      registrations, scan_vars, extra_vars, fresh_ids, queried, queue, finish, wait, waited,
                      idle_workers, c_writer, col_writers>>

\* The user function: the next tuple of the zip and the body; at the end
\* of the iteration the iterators are dropped and the function returns.
SysNext(s) ==
    LET step == zip_next(sys[s].handles, sys[s].entities, sys[s].counter,
                         system_stamp(s), 1,
                         [status |-> IF filtered_types(sys[s].handles) = {} THEN "none"
                                     ELSE "some",
                          components |-> components,
                          observed |-> {}, overwritten |-> {}])
    IN /\ sys[s].pc = "next"
       /\ IF step.status = "some"
          THEN /\ components' = step.components
               /\ sys' = [sys EXCEPT ![s].counter = @ + 1,
                                     ![s].observed = @ \cup step.observed,
                                     ![s].overwritten = @ \cup step.overwritten]
               /\ UNCHANGED col_readers
          ELSE /\ sys' = [sys EXCEPT ![s].pc = IF step.status = "none" THEN "returned"
                                               ELSE "panicked"]
               /\ col_readers' = col_readers \ guards_of(s)
               /\ UNCHANGED components
       /\ UNCHANGED <<bitmasks, bit_masks, number_of_entities, number_of_components,
                      free_entities, live, removed, last, panicked, thread_vars,
                      registrations, scan_vars, extra_vars, fresh_ids, queried, queue, finish, wait, waited,
                      idle_workers, c_writer, col_writers>>

\* A worker that leaves its loop after a task.
worker_loop_exits(idle) == idle

\* worker_loop: task.execute() returned, the loop polls the queue again.
worker_loop_next(idle) == idle + 1

\* The task after system.run returned: mark_as_finish, and the worker
\* polls the queue again.
SysFinish(s) ==
    /\ sys[s].pc = "returned"
    /\ finish' = [finish EXCEPT ![s] = mark_as_finish(@)]
    /\ sys' = [sys EXCEPT ![s].pc = "done"]
    /\ idle_workers' = worker_loop_next(idle_workers)
    /\ UNCHANGED <<world_vars, live, removed, last, panicked, thread_vars,
                   registrations, scan_vars, extra_vars, fresh_ids, queried, queue, wait, waited, lock_vars>>

SysSteps(s) ==
    \/ SysBitmasks(s) \/ SysQuery(s) \/ SysBuffer(s) \/ SysIter(s)
    \/ SysNext(s) \/ SysFinish(s)

\* The tuples of tokens the driver waits on: one to MaxSystems tokens of
\* dispatched systems.
WaitTuples ==
    {w \in UNION {[1..n -> Dispatched] : n \in 1..MaxSystems} :
        \A i, j \in 1..Len(w) : i # j => w[i] # w[j]}

\* TaskWaitable::wait: the call, with did_finish = true.
WaitBegin(tokens) ==
    /\ ~panicked
    /\ wait = NoWait
    /\ wait' = [tokens |-> tokens, k |-> 1, did_finish |-> TRUE]
    /\ UNCHANGED <<world_vars, live, removed, last, panicked, thread_vars,
                   registrations, scan_vars, extra_vars, fresh_ids, queried, queue, sys, finish, waited,
                   idle_workers, lock_vars>>

\* wait: did_finish &= finish.load() of the next token of the tuple.
WaitLoad ==
    /\ wait # NoWait
    /\ wait.k <= Len(wait.tokens)
    /\ wait' = [wait EXCEPT !.k = @ + 1,
                            !.did_finish =
                                did_finish_and(@, finish_load(finish[wait.tokens[wait.k]]))]
    /\ UNCHANGED <<world_vars, live, removed, last, panicked, thread_vars,
                   registrations, scan_vars, extra_vars, fresh_ids, queried, queue, sys, finish, waited,
                   idle_workers, lock_vars>>

\* wait: return when did_finish, or sleep and load every flag again.
WaitCheck ==
    /\ wait # NoWait
    /\ wait.k > Len(wait.tokens)
    /\ IF wait.did_finish
       THEN /\ wait' = NoWait
            /\ waited' = waited \cup {wait.tokens[k] : k \in 1..Len(wait.tokens)}
       ELSE /\ wait' = [wait EXCEPT !.k = 1, !.did_finish = TRUE]
            /\ UNCHANGED waited
    /\ UNCHANGED <<world_vars, live, removed, last, panicked, thread_vars,
                   registrations, scan_vars, extra_vars, fresh_ids, queried, queue, sys, finish,
                   idle_workers, lock_vars>>

\* The world the driver has set up before it dispatches systems: register
\* A, register B, then one add_entity per bundle of the set-up.
registered_world ==
    [components |-> storage_register_components(
                        storage_register_components(<<>>, "A"), "B"),
     bitmasks |-> storage_register_bitmasks(
                      storage_register_bitmasks(<<>>, "A", AsU8(0)), "B", AsU8(1)),
     bit_masks |-> BlockVec_new,
     number_of_entities |-> 0,
     number_of_components |-> 2,
     live |-> [i \in IssuableIds |-> 0],
     panicked |-> FALSE]

setup_add(w, types) ==
    LET bundle == stamped(types, w.number_of_components)
        entity == generate_entity_id(<<>>, w.number_of_entities)
        added == add_component(w.components, entity, bundle)
    IN [w EXCEPT !.components = added.components,
                 !.panicked = @ \/ added.panicked,
                 !.bit_masks = register_bitmask(@, entity,
                                                bundle_bitmask(w.bitmasks, bundle, 1)),
                 !.number_of_entities = generate_entity_counter(<<>>, @),
                 !.number_of_components = @ + Len(bundle),
                 !.live = [@ EXCEPT ![entity] = @ + 1]]

RECURSIVE setup_world(_, _)
setup_world(w, setup) ==
    IF setup = <<>> THEN w
    ELSE setup_world(setup_add(w, Head(setup)), Tail(setup))

Setups ==
    {setup \in UNION {[1..n -> BundleTypes] : n \in 0..MaxEntityId} :
        ~setup_world(registered_world, setup).panicked}

InitSys ==
    /\ \E setup \in Setups :
          LET w == setup_world(registered_world, setup)
          IN /\ components = w.components
             /\ bitmasks = w.bitmasks
             /\ bit_masks = w.bit_masks
             /\ number_of_entities = w.number_of_entities
             /\ number_of_components = w.number_of_components
             /\ live = w.live
    /\ free_entities = <<>>
    /\ removed = {}
    /\ last = NoCall
    /\ panicked = FALSE
    /\ th = [t \in Threads |-> Idle]
    /\ c_readers = {}
    /\ calls = 0
    /\ returned = {}
    /\ registrations = 2
    /\ queried = None
    /\ queue = <<>>
    /\ sys = [s \in SystemIds |-> NoSystem]
    /\ finish = [s \in SystemIds |-> FALSE]
    /\ wait = NoWait
    /\ waited = {}
    /\ idle_workers = NumWorkers
    /\ col_readers = {}
    /\ c_writer = 0
    /\ col_writers = {}
    /\ unique_components = <<>>
    /\ unique_last = <<>>
    /\ got = NoHandle
    /\ vecs = <<>>
    /\ bv_hist = NoBvCall
    /\ bm_lock = NoLock
    /\ scan = NoScan
    /\ fresh_ids = [k \in 1..number_of_entities |-> k - 1]

\* The driver dispatches systems and waits on tuples of their tokens; the
\* workers execute the systems.
NextSys ==
    \/ \E handles \in Systems : Run(handles)
    \/ WorkerPop
    \/ \E s \in SystemIds : SysSteps(s)
    \/ \E tokens \in WaitTuples : WaitBegin(tokens)
    \/ WaitLoad
    \/ WaitCheck

SpecSys == InitSys /\ [][NextSys]_vars

\* The driver adds entities and removes entities it holds while no
\* iterator holds a column.
DriverAdd(types) == col_readers = {} /\ AddEntity(types)

DriverRemove(entity) == col_readers = {} /\ live[entity] > 0 /\ RemoveEntity(entity)

\* The driver dispatches systems and goes on adding and removing entities
\* while the workers execute them.
NextDispatch ==
    \/ \E handles \in Systems : Run(handles)
    \/ WorkerPop
    \/ \E s \in SystemIds : SysSteps(s)
    \/ \E types \in BundleTypes : DriverAdd(types)
    \/ \E entity \in EntityIds : DriverRemove(entity)

SpecDispatch == InitSys /\ [][NextDispatch]_vars

(***************************************************************************)
(* Systems running while threads add entities. sync_buffers is taken lock  *)
(* by lock: the write lock of components, then the write lock of every     *)
(* column in the iteration order of the map, all held until the columns    *)
(* are padded.                                                             *)
(***************************************************************************)
\* sync_buffers: components.write(), and the iteration order of the map.
SyncLock(t) ==
    /\ th[t].pc = "sync"
    /\ c_readers = {}
    /\ c_writer = 0
    /\ c_writer' = t
    /\ \E order \in iteration_orders(components) :
          th' = [th EXCEPT ![t].pc = "sync_col", ![t].k = 1, ![t].order = order]
    /\ UNCHANGED <<world_vars, live, removed, last, panicked, c_readers, calls,
                   returned, registrations, scan_vars, extra_vars, fresh_ids, queried, sched_vars, col_readers,
                   col_writers>>

\* sync_buffers: value.write() of the next column, kept in `writers`.
SyncCol(t) ==
    LET k == th[t].k
    IN /\ th[t].pc = "sync_col"
       /\ k <= Len(th[t].order)
       /\ column_readers(th[t].order[k]) = {}
       /\ col_writers' = col_writers \cup {th[t].order[k]}
       /\ th' = [th EXCEPT ![t].k = k + 1]
       /\ UNCHANGED <<world_vars, live, removed, last, panicked, c_readers, calls,
                      returned, registrations, scan_vars, extra_vars, fresh_ids, queried, sched_vars, col_readers,
                      c_writer>>

\* sync_buffers: every column is padded to the biggest and the guards are
\* dropped.
SyncPad(t) ==
    /\ th[t].pc = "sync_col"
    /\ th[t].k > Len(th[t].order)
    /\ components' = sync_buffers(components)
    /\ col_writers' = {}
    /\ c_writer' = 0
    /\ th' = [th EXCEPT ![t].pc = "bitmask", ![t].k = 1, ![t].order = <<>>]
    /\ UNCHANGED <<bitmasks, bit_masks, number_of_entities, number_of_components,
                   free_entities, live, removed, last, panicked, c_readers, calls,
                   returned, registrations, scan_vars, extra_vars, fresh_ids, queried, sched_vars, col_readers>>

\* The steps of add_entity with sync_buffers lock by lock.
AddStepsLocks(t) ==
    \/ AddPop(t) \/ AddFresh(t) \/ AddLock(t) \/ AddElem(t) \/ AddNew(t)
    \/ SyncLock(t) \/ SyncCol(t) \/ SyncPad(t) \/ AddBitmask(t) \/ AddReturn(t)

\* The thread that adds an entity while systems run.
Adder == CHOOSE t \in Threads : TRUE

\* The driver dispatches systems that zip a view of A with a view of B and
\* waits for them while another thread makes one add_entity call of
\* registered types.
NextLive ==
    \/ Run(<<Read("A"), Write("B")>>)
    \/ WorkerPop
    \/ \E s \in SystemIds : SysSteps(s)
    \/ \E tokens \in WaitTuples : WaitBegin(tokens)
    \/ WaitLoad
    \/ WaitCheck
    \/ \E types \in BundleTypes : calls = 0 /\ AddBegin(Adder, types)
    \/ AddStepsLocks(Adder)

\* Fair scheduling: a worker, a thread inside add_entity and the driver
\* inside wait take their next step when it stays possible.
FairLive ==
    /\ WF_vars(WorkerPop)
    /\ \A s \in SystemIds : WF_vars(SysSteps(s))
    /\ WF_vars(AddStepsLocks(Adder))
    /\ WF_vars(WaitLoad)
    /\ WF_vars(WaitCheck)

SpecLive == InitSys /\ [][NextLive]_vars /\ FairLive

(***************************************************************************)
(* The unique store (component.rs register_unique / unique_component) and  *)
(* the construction of handles by World::get and by a system, for handles  *)
(* of registered and unregistered types.                                   *)
(***************************************************************************)
UniqueValues == 1..MaxUniqueValue

\* A registration that keeps the value a type already has.
storage_register_unique_first(uniques, c0, c) ==
    IF c0 \in DOMAIN uniques THEN uniques ELSE insert(uniques, c0, c)

\* ComponentsStorage::register_unique: unique_components.insert(id, value).
storage_register_unique(uniques, c0, c) == insert(uniques, c0, c)

\* A lookup that answers with a default value for an absent type.
unique_component_default(uniques, type_id) ==
    Some(IF type_id \in DOMAIN uniques THEN uniques[type_id] ELSE 0)

\* ComponentsStorage::unique_component: the value of the type, if any.
unique_component(uniques, type_id) ==
    IF type_id \in DOMAIN uniques THEN Some(uniques[type_id]) ELSE None

\* World::register_unique.
RegisterUnique(c0, c) ==
    /\ ~panicked
    /\ calls = 0
    /\ unique_components' = storage_register_unique(unique_components, c0, c)
    /\ unique_last' = insert(unique_last, c0, c)
    /\ last' = [NoCall EXCEPT !.op = "register_unique", !.type = c0]
    /\ UNCHANGED <<world_vars, live, removed, panicked, thread_vars, registrations, scan_vars,
                   queried, sched_vars, lock_vars, got, vecs, bv_hist, fresh_ids>>

\* The handles World::get and a system are asked for: a Read<T> or a
\* UniqueRead<T>.
GetHandles == [type : TypeIds, is_unique : BOOLEAN, write : {FALSE}]

\* World::get: a unique handle from the unique store, a filtered handle
\* from the bitmask of its type, the entity list and the column; a panic
\* when the type is absent.
Get(handle) ==
    /\ ~panicked
    /\ calls = 0
    /\ last' = [NoCall EXCEPT !.op = IF handle.is_unique THEN "get_unique" ELSE "get",
                              !.type = handle.type]
    /\ IF handle.is_unique
       THEN LET c == unique_component(unique_components, handle.type)
            IN IF IsSome(c)
               THEN /\ got' = Some([handle |-> handle, value |-> Unwrap(c),
                                    entities |-> <<>>])
                    /\ UNCHANGED panicked
               ELSE /\ got' = NoHandle
                    /\ panicked' = TRUE
       ELSE IF handle.type \notin DOMAIN bitmasks \/ handle.type \notin DOMAIN components
       THEN /\ got' = NoHandle
            /\ panicked' = TRUE
       ELSE /\ got' = Some([handle |-> handle, value |-> 0,
                            entities |-> query_by_bitmask(bit_masks,
                                             bitmask(bitmasks, handle.type))])
            /\ UNCHANGED panicked
    /\ UNCHANGED <<world_vars, live, removed, thread_vars, registrations, scan_vars, queried,
                   sched_vars, lock_vars, unique_components, unique_last, vecs,
                   bv_hist, fresh_ids>>

\* System::run: unique_component(type) for a unique handle, a panic when
\* the store has no value of the type; after the last handle the user
\* function is called.
SysUnique(s) ==
    LET k == sys[s].k
        c == unique_component(unique_components, sys[s].handles[k].type)
    IN /\ sys[s].pc = "query"
       /\ sys[s].handles[k].is_unique
       /\ IF ~IsSome(c)
          THEN sys' = [sys EXCEPT ![s].pc = "panicked"]
          ELSE sys' = [sys EXCEPT
                          ![s].entities = Append(@, <<>>),
                          ![s].uniques = Append(@, Unwrap(c)),
                          ![s].pc = IF k < Len(sys[s].handles) THEN "query" ELSE "iter",
                          ![s].k = IF k < Len(sys[s].handles) THEN k + 1 ELSE 1]
       /\ UNCHANGED <<world_vars, live, removed, last, panicked, thread_vars,
                      registrations, scan_vars, extra_vars, fresh_ids, queried, queue, finish,
                      wait, waited, idle_workers, lock_vars>>

\* The systems of one or two handles, each a Read<T> or a UniqueRead<T>.
HandleSystems == UNION {[1..n -> GetHandles] : n \in 1..Cardinality(TypeIds)}

\* The driver registers types and unique values, asks for handles and
\* dispatches one system of any handles; a worker executes it.
NextHandles ==
    \/ \E c0 \in TypeIds : c0 \notin DOMAIN components /\ Register(c0)
    \/ \E c0 \in TypeIds : \E c \in UniqueValues : RegisterUnique(c0, c)
    \/ \E handle \in GetHandles : Get(handle)
    \/ \E handles \in HandleSystems : Dispatched = {} /\ Run(handles)
    \/ WorkerPop
    \/ \E s \in SystemIds : SysSteps(s) \/ SysUnique(s)

SpecHandles == Init /\ [][NextHandles]_vars

(***************************************************************************)
(* The paged vector on its own (crates/utils/src/block_vec.rs): vectors    *)
(* are created, written with set, read with get at indices within and      *)
(* beyond their pages, and padded together with sync_mem_to_biggest.       *)
(***************************************************************************)
\* The indices set is given, the indices get is given (up to one page past
\* the largest page count a vector reaches) and the items stored.
Indices == 0..MaxIndex
GetIndices == 0..((2 * (block_for_index(MaxIndex) + 1) + 1) * PageSize)
Items == 1..MaxItem

\* The lists of distinct vectors a sync_mem_to_biggest call is given.
RefLists(n) ==
    {refs \in UNION {[1..m -> 1..n] : m \in 0..n} :
        \A j, k \in 1..Len(refs) : j # k => refs[j] # refs[k]}

\* A padding to the page count of the first vector of the list.
sync_mem_to_first(list) ==
    [k \in 1..Len(list) |->
        append_empty_blocks(list[k], blocks_len(list[1]) - blocks_len(list[k]))]

\* sync_mem_to_biggest: the search for the biggest page count.
RECURSIVE biggest_blocks_len(_, _, _)
biggest_blocks_len(list, k, biggest) ==
    IF k > Len(list) THEN biggest
    ELSE biggest_blocks_len(list, k + 1,
                    IF biggest < blocks_len(list[k]) THEN blocks_len(list[k])
                    ELSE biggest)

\* sync_mem_to_biggest: every vector of the list gets biggest - blocks_len
\* empty pages.
sync_mem_to_biggest(list) ==
    [k \in 1..Len(list) |->
        append_empty_blocks(list[k], biggest_blocks_len(list, 1, 0) - blocks_len(list[k]))]

\* BlockVec::new.
BvNew ==
    /\ ~panicked
    /\ Len(vecs) < MaxVecs
    /\ vecs' = Append(vecs, BlockVec_new)
    /\ bv_hist' = [bv_hist EXCEPT !.op = "new", !.vec = Len(vecs) + 1, !.index = 0,
                                  !.result = None, !.before = <<>>, !.refs = <<>>,
                                  !.written = Append(@, [i \in Indices |-> None]),
                                  !.top = Append(@, -1)]
    /\ UNCHANGED <<world_vars, live, removed, last, panicked, thread_vars,
                   registrations, scan_vars, queried, sched_vars, lock_vars,
                   unique_components, unique_last, got, fresh_ids>>

\* BlockVec::set.
BvSet(v, item, index) ==
    /\ ~panicked
    /\ v \in 1..Len(vecs)
    /\ vecs' = [vecs EXCEPT ![v] = set(@, item, index)]
    /\ bv_hist' = [bv_hist EXCEPT !.op = "set", !.vec = v, !.index = index,
                                  !.result = None, !.before = <<>>, !.refs = <<>>,
                                  !.written[v][index] = Some(item),
                                  !.top[v] = IF index > @ THEN index ELSE @]
    /\ UNCHANGED <<world_vars, live, removed, last, panicked, thread_vars,
                   registrations, scan_vars, queried, sched_vars, lock_vars,
                   unique_components, unique_last, got, fresh_ids>>

\* BlockVec::get; indexing the page vector out of range panics.
BvGet(v, index) ==
    /\ ~panicked
    /\ v \in 1..Len(vecs)
    /\ panicked' = get_panics(vecs[v], index)
    /\ bv_hist' = [bv_hist EXCEPT !.op = "get", !.vec = v, !.index = index,
                                  !.result = IF get_panics(vecs[v], index) THEN None
                                             ELSE get(vecs[v], index),
                                  !.before = vecs, !.refs = <<>>]
    /\ UNCHANGED <<world_vars, live, removed, last, thread_vars,
                   registrations, scan_vars, queried, sched_vars, lock_vars,
                   unique_components, unique_last, got, vecs, fresh_ids>>

\* sync_mem_to_biggest over a list of references to distinct vectors.
BvSync(refs) ==
    LET synced == sync_mem_to_biggest([k \in 1..Len(refs) |-> vecs[refs[k]]])
    IN /\ ~panicked
       /\ vecs' = [v \in 1..Len(vecs) |->
                     IF \E k \in 1..Len(refs) : refs[k] = v
                     THEN synced[CHOOSE k \in 1..Len(refs) : refs[k] = v]
                     ELSE vecs[v]]
       /\ bv_hist' = [bv_hist EXCEPT !.op = "sync", !.vec = 0, !.index = 0,
                                     !.result = None, !.before = vecs, !.refs = refs,
                                     !.synced = @ \cup {refs[k] : k \in 1..Len(refs)}]
       /\ UNCHANGED <<world_vars, live, removed, last, panicked, thread_vars,
                      registrations, scan_vars, queried, sched_vars, lock_vars,
                      unique_components, unique_last, got, fresh_ids>>

NextBlockVec ==
    \/ BvNew
    \/ \E v \in 1..MaxVecs : \E item \in Items : \E index \in Indices :
          BvSet(v, item, index)
    \/ \E v \in 1..MaxVecs : \E index \in GetIndices : BvGet(v, index)
    \/ \E refs \in RefLists(Len(vecs)) : BvSync(refs)

SpecBlockVec == Init /\ [][NextBlockVec]_vars

(***************************************************************************)
(* Vocabulary of the properties.                                           *)
(***************************************************************************)
Range(seq) == {seq[k] : k \in 1..Len(seq)}

\* The slot of a paged vector at an index, by page and offset.
SlotAt(bv, i) ==
    IF i \div PageSize < Len(bv.blocks)
    THEN bv.blocks[(i \div PageSize) + 1][(i % PageSize) + 1]
    ELSE None

\* The bitmask the table holds for an id (no bit when none was written).
BitmaskAt(masks, i) == IF SlotAt(masks, i) = None THEN 0 ELSE SlotAt(masks, i)[1]

\* The column holds an installed (non-empty) cell at the id.
CellInstalled(comps, t, i) ==
    /\ SlotAt(comps[t], i) # None
    /\ SlotAt(comps[t], i)[1] # None

CellValue(comps, t, i) == SlotAt(comps[t], i)[1][1]

HasBit(mask, shift) == (mask \div (2 ^ shift)) % 2 = 1

\* mask has every bit of filter.
Covers(mask, filter) ==
    \A shift \in 0..MaxNumberOfComponents : HasBit(filter, shift) => HasBit(mask, shift)

Filters == 0..((2 ^ MaxNumberOfComponents) - 1)

ScannedIds(masks) == 0..((Len(masks.blocks) * PageSize) - 1)

LiveIds == {i \in IssuableIds : live[i] > 0}

(***************************************************************************)
(* C1: two live entities never have the same id: an id is handed out       *)
(* again only after a removal of it completed, once per removal - also     *)
(* when remove_entity is called twice on an entity or on an entity built   *)
(* with Entity::new.                                                       *)
(***************************************************************************)
C1_LiveIdsDistinct == \A i \in IssuableIds : live[i] <= 1

(***************************************************************************)
(* C2: when the threads' concurrent add_entity calls on a world whose      *)
(* component types were registered beforehand have all returned, as many   *)
(* distinct ids were returned as calls were made, the bitmask stored for   *)
(* each returned id is the OR of the bits of its bundle's types, and each  *)
(* component of each bundle is installed in its column at that id with     *)
(* the inserted value.                                                     *)
(***************************************************************************)
C2_ConcurrentAdds ==
    (\A t \in Threads : th[t].pc = "idle") =>
        /\ Cardinality({r.entity : r \in returned}) = calls
        /\ \A r \in returned :
              /\ BitmaskAt(bit_masks, r.entity) =
                    system_bitmasks(bitmasks, bundle_types(r.bundle))
              /\ \A k \in 1..Len(r.bundle) :
                    /\ CellInstalled(components, r.bundle[k].type, r.entity)
                    /\ CellValue(components, r.bundle[k].type, r.entity) = r.bundle[k].value

\* All calls of the threads returned; one bundle had two types, and the
\* columns grew during the calls.
C2_Witness ==
    /\ \A t \in Threads : th[t].pc = "idle"
    /\ calls = MaxThreadCalls
    /\ Cardinality(returned) = MaxThreadCalls
    /\ \E r \in returned : Len(r.bundle) = 2
    /\ \E r \in returned : r.entity >= number_of_entities - 1 /\ r.entity >= 1
    /\ \A t \in DOMAIN components : blocks_len(components[t]) >= 2

(***************************************************************************)
(* C3: after every completed call, a column holds an installed cell at an  *)
(* id exactly when the bit of its type is set in the bitmask of the id,    *)
(* and every live entity has a non-zero bitmask.                           *)
(***************************************************************************)
C3_CellsMatchBitmask ==
    ~panicked =>
        /\ \A i \in IssuableIds : \A t \in DOMAIN components :
              CellInstalled(components, t, i) <=> HasBit(BitmaskAt(bit_masks, i), bitmasks[t])
        /\ \A i \in LiveIds : BitmaskAt(bit_masks, i) # 0

(***************************************************************************)
(* C4: after every completed call all registered columns have the same     *)
(* page count, also a column registered after other columns grew.          *)
(***************************************************************************)
C4_EqualPageCounts ==
    ~panicked =>
        \A t1, t2 \in DOMAIN components :
            blocks_len(components[t1]) = blocks_len(components[t2])

\* A second column was just registered in a world whose columns had grown.
C4_Witness ==
    /\ ~panicked
    /\ last.op = "register"
    /\ Cardinality(DOMAIN components) = 2
    /\ \A t \in DOMAIN components : blocks_len(components[t]) >= 2
    /\ \E t \in DOMAIN components : \E i \in IssuableIds : CellInstalled(components, t, i)

(***************************************************************************)
(* C5: for every filter, query_by_bitmask returns the ids in strictly      *)
(* ascending order and exactly the written ids of the scanned range whose  *)
(* bitmask has every bit of the filter.                                    *)
(***************************************************************************)
C5_QueryExact ==
    queried # None =>
        LET filter == Unwrap(queried).bitmasks
            E == Unwrap(queried).f_entities
        IN /\ \A j, k \in 1..Len(E) : j < k => E[j] < E[k]
           /\ Range(E) = {i \in ScannedIds(bit_masks) :
                            /\ SlotAt(bit_masks, i) # None
                            /\ Covers(BitmaskAt(bit_masks, i), filter)}

\* A filter of two bits was applied to a table of two pages: it selected
\* an id and left out an id that has only one of the two bits.
C5_Witness ==
    /\ queried # None
    /\ blocks_len(bit_masks) >= 2
    /\ Unwrap(queried).bitmasks = 3
    /\ Unwrap(queried).f_entities # <<>>
    /\ \E i \in ScannedIds(bit_masks) :
          /\ BitmaskAt(bit_masks, i) # 0
          /\ i \notin Range(Unwrap(queried).f_entities)

(***************************************************************************)
(* C6: query_by_bitmask with the empty filter returns exactly the ids of   *)
(* the live entities; a removed id that was not reissued is not returned.  *)
(***************************************************************************)
C6_EmptyFilterIsLive ==
    ~panicked => Range(query_by_bitmask(bit_masks, 0)) = LiveIds

(***************************************************************************)
(* C7: after remove_entity(e) returned and until e.id is reissued, every   *)
(* view built for a non-empty set of filtered component types leaves       *)
(* e.id out, and still yields an accessor for every live entity whose      *)
(* bitmask matches the filter.                                             *)
(***************************************************************************)
C7_RemovedHidden ==
    ~panicked =>
        \A handles \in (SUBSET DOMAIN components) \ {{}} :
            LET filter == system_bitmasks(bitmasks, handles)
                E == query_by_bitmask(bit_masks, filter)
            IN /\ \A e \in removed : e \notin Range(E)
               /\ \A t \in handles :
                     LET view == access_iterator(components[t], E, 1, <<>>)
                     IN /\ ~view.panicked
                        /\ \A i \in LiveIds :
                              Covers(BitmaskAt(bit_masks, i), filter)
                                  => i \in Range(view.yielded)

\* remove_entity just returned for an entity that owned a component, and
\* another live entity still matches the filter of that component's type.
C7_Witness ==
    /\ ~panicked
    /\ last.op = "remove_entity"
    /\ last.entity \in removed
    /\ \E t \in DOMAIN components :
          /\ SlotAt(components[t], last.entity) = Some(empty_cell)
          /\ \E i \in LiveIds \ {last.entity} :
                i \in Range(query_by_bitmask(bit_masks, bitmask(bitmasks, t)))

C9_UnknownRemoveIsNoOp ==
    [][(last'.op = "remove_entity" /\ live[last'.entity] = 0)
       => /\ ~panicked'
          /\ bit_masks' = bit_masks
          /\ components' = components
          /\ free_entities' = free_entities]_vars

(***************************************************************************)
(* C10: remove_entity(e) resets bitmask(e), then empties each column's     *)
(* cell at e.id, then pushes e.id on the free queue; hence in every        *)
(* intermediate state of a removal no bit is set in bitmask(e) for a cell  *)
(* that is emptied, and no query_by_bitmask with a non-zero filter that    *)
(* starts after the reset selects e.                                       *)
(***************************************************************************)
C10_RemovalOrderObserved ==
    \A t \in Threads :
        Removing(t) =>
            LET e == th[t].entity
            IN /\ \A c \in DOMAIN components :
                     SlotAt(components[c], e) = Some(empty_cell)
                         => ~HasBit(BitmaskAt(bit_masks, e), bitmasks[c])
               /\ \A filter \in Filters \ {0} :
                     e \notin Range(query_by_bitmask(bit_masks, filter))

(***************************************************************************)
(* C11: bit positions are assigned in registration order: the k-th call    *)
(* of register on a world (k = 0, 1, 2, ...) gives its type bit position   *)
(* k, whatever number of add_entity calls happened before or between the   *)
(* registrations.                                                          *)
(***************************************************************************)
C11_BitPositionInOrder ==
    [][last'.op = "register" => bitmasks'[last'.type] = registrations]_vars

(***************************************************************************)
(* C12: bit positions are stable: once a type is registered, its bitmask   *)
(* is the same in every later state, after any register (also of the same  *)
(* type again), add_entity and remove_entity.                              *)
(***************************************************************************)
C12_BitPositionStable ==
    [][\A t \in DOMAIN bitmasks :
          t \in DOMAIN bitmasks' /\ bitmask(bitmasks', t) = bitmask(bitmasks, t)]_vars

(***************************************************************************)
(* C13: registration is append-only: a register call (also of a type that  *)
(* is already registered) removes or replaces no column, and every cell    *)
(* installed for a live entity before the call is installed with the same  *)
(* value after it.                                                         *)
(***************************************************************************)
C13_RegisterAppendOnly ==
    [][last'.op = "register" =>
          \A t \in DOMAIN components :
              /\ t \in DOMAIN components'
              /\ \A i \in LiveIds :
                    CellInstalled(components, t, i) =>
                        /\ CellInstalled(components', t, i)
                        /\ CellValue(components', t, i) = CellValue(components, t, i)]_vars

(***************************************************************************)
(* C14: for a system with filtered handles over T1..Tn and any unique      *)
(* handles, the filter is the OR of the bits of T1..Tn only, and in a      *)
(* quiescent world each filtered view yields one accessor per live entity  *)
(* that owns all of T1..Tn, in ascending id order, and none for any other  *)
(* entity.                                                                 *)
(***************************************************************************)
Owns(i, types) == \A t \in types : CellInstalled(components, t, i)

C14_FilteredViews ==
    ~panicked =>
        \A handles \in Handles :
            (filtered_types(handles) # {} /\ filtered_types(handles) \subseteq DOMAIN components)
            => LET F == generate_system_bitmasks(bitmasks, handles, 1)
                   E == query_by_bitmask(bit_masks, F)
               IN /\ \A shift \in 0..MaxNumberOfComponents :
                        HasBit(F, shift) <=>
                            \E t \in filtered_types(handles) : bitmasks[t] = shift
                  /\ \A t \in filtered_types(handles) :
                        LET view == access_iterator(components[t], E, 1, <<>>)
                        IN /\ ~view.panicked
                           /\ \A j, k \in 1..Len(view.yielded) :
                                 j < k => view.yielded[j] < view.yielded[k]
                           /\ Range(view.yielded) =
                                 {i \in LiveIds : Owns(i, filtered_types(handles))}

\* The handles of system s are built: the user function was called.
HandlesBuilt(s) == sys[s].pc \in {"iter", "next", "returned", "done"}

\* The positions of the filtered views of system s.
views(s) == {k \in 1..Len(sys[s].entities) : ~sys[s].handles[k].is_unique}

\* C15: all filtered views of one system invocation are built from the same
\* entity list, also when add_entity or remove_entity is called by another
\* thread while the handles are being constructed: once the handles of a
\* system are built, the entity lists of its views are equal (and so of
\* equal length).
C15_SameEntityList ==
    \A s \in SystemIds :
        HandlesBuilt(s) =>
            \A j, k \in views(s) : sys[s].entities[j] = sys[s].entities[k]

\* C16: the entity list of a system is the one of the moment run was
\* called: an add_entity or remove_entity made after run returned, even
\* before a worker pops the task, does not change the entities the
\* invocation iterates. Every view of a system whose handles are built
\* holds the list query_by_bitmask gave when run was called.
C16_ListOfDispatchTime ==
    \A s \in SystemIds :
        HandlesBuilt(s) =>
            \A k \in views(s) : sys[s].entities[k] = sys[s].dispatch

\* C17: a token is signalled only after the user function of its system
\* returned, and a wait on a tuple of tokens returns only when every token
\* of the tuple is signalled: a set flag belongs to a system whose task is
\* done, and every token a returned wait covered is set.
C17_SignalAfterReturn ==
    /\ \A s \in SystemIds : finish[s] => sys[s].pc = "done"
    /\ \A s \in waited : finish[s]

\* A wait on a tuple of more than one token has loaded every flag and found
\* all of them set: it returns.
C17_Witness ==
    /\ Len(wait.tokens) > 1
    /\ wait.k > Len(wait.tokens)
    /\ wait.did_finish
    /\ \A s \in Range(wait.tokens) : sys[s].pc = "done"

C19_SingleShot ==
    [][/\ \A s \in SystemIds :
              (sys[s].pc = "none" /\ sys'[s].pc # "none") => ~finish'[s]
       /\ \A s \in Dispatched : finish[s] => finish'[s]
       /\ (/\ wait # NoWait
           /\ Range(wait.tokens) \subseteq waited
           /\ wait.k > Len(wait.tokens)
           /\ wait' # wait) => wait' = NoWait]_vars

\* A second wait on tokens already waited for has loaded the flags and
\* found them set.
C19_Witness ==
    /\ wait # NoWait
    /\ Range(wait.tokens) \subseteq waited
    /\ wait.k > Len(wait.tokens)
    /\ wait.did_finish

\* C20: when the systems request registered types and their user functions
\* return, every wait on tokens of run returns under fair scheduling, also
\* while add_entity runs on another thread: a wait in progress leads to its
\* return, unless a system panicked.
C20_WaitReturns ==
    (wait # NoWait) ~> (wait = NoWait \/ \E s \in SystemIds : sys[s].pc = "panicked")

\* A handle whose type is absent: a filtered handle of a type without
\* column, a unique handle of a type without value in the unique store.
Offending(handle) ==
    IF handle.is_unique THEN handle.type \notin DOMAIN unique_components
    ELSE handle.type \notin DOMAIN components

\* C21: a system or a World::get call that requests a filtered handle of an
\* unregistered type, or a unique handle of a type absent from the unique
\* store, fails, and the user function is never invoked, whatever the
\* position of the handle: the step of a system that meets such a handle
\* ends the system in a panic, a system that panicked never runs its user
\* function, and a get call of such a handle panics and returns no handle.
C21_MissingTypeFails ==
    [][/\ \A s \in SystemIds :
              /\ (/\ sys[s].pc = "bitmasks"
                  /\ sys'[s] # sys[s]
                  /\ \E k \in 1..Len(sys[s].handles) :
                        ~sys[s].handles[k].is_unique /\ Offending(sys[s].handles[k]))
                     => sys'[s].pc = "panicked"
              /\ (/\ sys[s].pc \in {"query", "buffer"}
                  /\ sys'[s] # sys[s]
                  /\ Offending(sys[s].handles[sys[s].k]))
                     => sys'[s].pc = "panicked"
              /\ sys[s].pc = "panicked" => sys'[s].pc = "panicked"
       /\ (last'.op = "get" /\ last' # last /\ last'.type \notin DOMAIN components)
             => panicked' /\ got' = NoHandle
       /\ (last'.op = "get_unique" /\ last' # last
           /\ last'.type \notin DOMAIN unique_components)
             => panicked' /\ got' = NoHandle]_vars

\* A system panicked on its second handle, a unique handle of a type absent
\* from the unique store, after its first handle was built.
C21_Witness ==
    \E s \in SystemIds :
        /\ sys[s].pc = "panicked"
        /\ Len(sys[s].handles) = 2
        /\ Len(sys[s].entities) = 1
        /\ sys[s].handles[2].is_unique
        /\ Offending(sys[s].handles[2])

\* C24: register_unique is last-writer-wins and touches nothing else: a
\* unique handle built by World::get or by a system holds the value of the
\* last register_unique call of its type, and a register_unique call
\* changes no column, no bit position, no bitmask and no entity id state.
C24_UniqueLastWriterWins ==
    [][/\ (last'.op = "get_unique" /\ got' # NoHandle)
             => Unwrap(got').value = unique_last'[last'.type]
       /\ \A s \in SystemIds :
              Len(sys'[s].uniques) > Len(sys[s].uniques)
                 => sys'[s].uniques[Len(sys'[s].uniques)] =
                        unique_last[sys[s].handles[sys[s].k].type]
       /\ (/\ last'.op = "register_unique"
           /\ (last' # last \/ unique_components' # unique_components))
             => UNCHANGED <<components, bitmasks, bit_masks, number_of_entities,
                            number_of_components, free_entities>>]_vars

\* A system built a unique handle of a type, the type was registered again
\* with another value, and World::get returned a handle with the new value.
C24_Witness ==
    /\ last.op = "get_unique"
    /\ got # NoHandle
    /\ \E s \in SystemIds :
          /\ Len(sys[s].handles) = 1
          /\ sys[s].handles[1].is_unique
          /\ sys[s].handles[1].type = last.type
          /\ sys[s].uniques # <<>>
          /\ sys[s].uniques[1] # Unwrap(got).value

C25_GetNeverFails ==
    bv_hist.op = "get" =>
        /\ ~panicked
        /\ vecs = bv_hist.before
        /\ bv_hist.result =
              IF bv_hist.index \in Indices
              THEN bv_hist.written[bv_hist.vec][bv_hist.index]
              ELSE None

\* C26: set/get round trip.  get at an index returns the item of the last
\* set at that index, whatever sets at other indices (growing ones
\* included) and paddings came after it.
C26_SetGetRoundTrip ==
    \A v \in 1..Len(vecs) : \A i \in Indices :
        IsSome(bv_hist.written[v][i]) =>
            /\ ~get_panics(vecs[v], i)
            /\ get(vecs[v], i) = bv_hist.written[v][i]

\* An item survives a later set at a larger index that grew the vector, and
\* a replacement of another item.
C26_Witness ==
    /\ bv_hist.op = "set"
    /\ bv_hist.index = MaxIndex
    /\ blocks_len(vecs[bv_hist.vec]) > block_for_index(MaxIndex)
    /\ \E i \in Indices : /\ i < MaxIndex
                          /\ bv_hist.written[bv_hist.vec][i] = Some(MaxItem)
                          /\ get(vecs[bv_hist.vec], i) = Some(MaxItem)

\* C27: growth is exactly as needed.  A new BlockVec has one page, and a
\* vector only written with set has floor(m / N) + 1 pages, m the largest
\* index set so far, in whatever order the sets came.
C27_PagesAsNeeded ==
    \A v \in 1..Len(vecs) :
        v \notin bv_hist.synced =>
            blocks_len(vecs[v]) =
                IF bv_hist.top[v] < 0 THEN 1
                ELSE (bv_hist.top[v] \div PageSize) + 1

\* C28: sync_mem_to_biggest leaves every vector of its list with the
\* largest page count any of them had before the call, changes no stored
\* item and no other vector, and a second call changes nothing.
C28_SyncToBiggest ==
    bv_hist.op = "sync" =>
        LET before == bv_hist.before
            refs == bv_hist.refs
            listed == {refs[k] : k \in 1..Len(refs)}
        IN /\ \A v \in listed :
                 /\ \A u \in listed : blocks_len(vecs[v]) >= blocks_len(before[u])
                 /\ \E u \in listed : blocks_len(vecs[v]) = blocks_len(before[u])
                 /\ \A i \in 0..(actual_len(before[v]) - 1) :
                        get_inbouds(vecs[v], i) = get_inbouds(before[v], i)
                 /\ \A i \in actual_len(before[v])..(actual_len(vecs[v]) - 1) :
                        get_inbouds(vecs[v], i) = None
           /\ \A v \in 1..Len(vecs) : v \notin listed => vecs[v] = before[v]
           /\ Len(vecs) = Len(before)
           /\ sync_mem_to_biggest([k \in 1..Len(refs) |-> vecs[refs[k]]])
                 = [k \in 1..Len(refs) |-> vecs[refs[k]]]

\* A list whose second vector is the larger one was padded: the first
\* vector grew and kept its item.
C28_Witness ==
    /\ bv_hist.op = "sync"
    /\ bv_hist.refs = <<1, 2>>
    /\ blocks_len(bv_hist.before[1]) < blocks_len(bv_hist.before[2])
    /\ blocks_len(vecs[1]) = blocks_len(vecs[2])
    /\ IsSome(bv_hist.written[1][0])

\* A system waits in iter() for the read lock of a column that
\* sync_buffers holds the write lock of.
IterBlocked(s) ==
    /\ sys[s].pc = "iter"
    /\ ~sys[s].handles[sys[s].k].is_unique
    /\ sys[s].handles[sys[s].k].type \in col_writers

\* A thread waits in sync_buffers for the write lock of a column that
\* iterators hold read guards of.
SyncBlocked(t) ==
    /\ th[t].pc = "sync_col"
    /\ th[t].k <= Len(th[t].order)
    /\ column_readers(th[t].order[th[t].k]) # {}

\* C29: deadlock freedom.  No reachable state has a thread inside the page
\* synchronization of add_entity waiting for a column whose read guards
\* are all held by systems that wait for a column this thread has locked:
\* systems that iterate two columns and add_entity calls that synchronize
\* pages always complete.
C29_DeadlockFree ==
    \A t \in Threads :
        ~(/\ SyncBlocked(t)
          /\ \A g \in column_readers(th[t].order[th[t].k]) : IterBlocked(g[1]))

(***************************************************************************)
(* The locks each function of ComponentsStorage takes and drops, in the    *)
(* order of its code (crates/ecs/src/component.rs).                        *)
(***************************************************************************)
Lock(kind, type) == [kind |-> kind, type |-> type]
acquire(lock) == [op |-> "acquire", lock |-> lock]
release(lock) == [op |-> "release", lock |-> lock]

\* The locks of the registry a thread holds between its steps.
held_locks(t, readers, writer, columns) ==
    (IF t \in readers THEN {Lock("components.read", "")} ELSE {})
    \cup (IF writer = t
          THEN {Lock("components.write", "")}
               \cup {Lock("column.write", type) : type \in columns}
          ELSE {})

\* An add_component that drops the read guard of the column before it
\* writes the cell in place.
add_component_locks_dropped(comps, type, entity) ==
    IF /\ get_inbouds_is_ok(comps[type], entity)
       /\ IsSome(get_inbouds(comps[type], entity))
    THEN <<acquire(Lock("column.read", type)), release(Lock("column.read", type)),
           acquire(Lock("cell.write", type)), release(Lock("cell.write", type))>>
    ELSE <<acquire(Lock("column.read", type)), release(Lock("column.read", type))>>

\* add_component, one element of the bundle: b_reader = buffer.read(), then
\* item_lock.write() of an existing cell, or drop(b_reader).
add_component_locks(comps, type, entity) ==
    IF /\ get_inbouds_is_ok(comps[type], entity)
       /\ IsSome(get_inbouds(comps[type], entity))
    THEN <<acquire(Lock("column.read", type)), acquire(Lock("cell.write", type)),
           release(Lock("cell.write", type)), release(Lock("column.read", type))>>
    ELSE <<acquire(Lock("column.read", type)), release(Lock("column.read", type))>>

\* add_new_component: b_writer = buffer.write() around the set.
add_new_component_locks(type) ==
    <<acquire(Lock("column.write", type)), release(Lock("column.write", type))>>

\* remove_components, one column: b_reader = buffer.read(), then
\* item_ref.write() when the slot holds a cell.
remove_components_locks(comps, type, entity) ==
    IF ~get_panics(comps[type], entity) /\ IsSome(get(comps[type], entity))
    THEN <<acquire(Lock("column.read", type)), acquire(Lock("cell.write", type)),
           release(Lock("cell.write", type)), release(Lock("column.read", type))>>
    ELSE <<acquire(Lock("column.read", type)), release(Lock("column.read", type))>>

\* sync_buffers: components.write(), value.write() of every column in the
\* iteration order of the map, and the drop of all of them at the return.
sync_buffers_locks(order) ==
    <<acquire(Lock("components.write", ""))>>
    \o [k \in 1..Len(order) |-> acquire(Lock("column.write", order[k]))]
    \o [k \in 1..Len(order) |-> release(Lock("column.write", order[k]))]
    \o <<release(Lock("components.write", ""))>>

\* register: components.write() and bitmasks.write() in a block of their
\* own, then sync_buffers.
register_locks(order) ==
    <<acquire(Lock("components.write", "")), acquire(Lock("bitmasks.write", "")),
      release(Lock("bitmasks.write", "")), release(Lock("components.write", ""))>>
    \o sync_buffers_locks(order)

\* The locks a step of a thread takes and drops (sync_buffers as one step,
\* or lock by lock).
lock_steps(t) ==
    LET pc == th[t].pc
        k == th[t].k
        bundle == th[t].bundle
        order == th[t].order
        entity == th[t].entity
    IN IF pc \in {"lock", "rm_lock"} THEN <<acquire(Lock("components.read", ""))>>
       ELSE IF pc = "elem" THEN
            IF k > Len(bundle) \/ bundle[k].type \notin DOMAIN components
            THEN <<release(Lock("components.read", ""))>>
            ELSE add_component_locks(components, bundle[k].type, entity)
       ELSE IF pc = "elem_new" THEN add_new_component_locks(bundle[k].type)
       ELSE IF pc = "sync" THEN
            IF th'[t].pc = "sync_col" THEN <<acquire(Lock("components.write", ""))>>
            ELSE sync_buffers_locks(CHOOSE o \in iteration_orders(components) : TRUE)
       ELSE IF pc = "sync_col" THEN
            IF k <= Len(order) THEN <<acquire(Lock("column.write", order[k]))>>
            ELSE [j \in 1..Len(order) |-> release(Lock("column.write", order[j]))]
                 \o <<release(Lock("components.write", ""))>>
       ELSE IF pc = "rm_cell" THEN
            IF k > Len(order) THEN <<release(Lock("components.read", ""))>>
            ELSE remove_components_locks(components, order[k], entity)
                 \o (IF get_panics(components[order[k]], entity)
                     THEN <<release(Lock("components.read", ""))>>
                     ELSE <<>>)
       ELSE <<>>

\* Whether a lock may be requested by a thread that holds the locks of
\* `held`: not the write lock of the registry while a column lock is held,
\* and a cell lock only under the read lock of its column.
lock_in_order(lock, held) ==
    /\ lock.kind = "components.write" =>
          \A h \in held : h.kind \notin {"column.read", "column.write"}
    /\ lock.kind = "cell.write" => Lock("column.read", lock.type) \in held

RECURSIVE locks_in_order(_, _, _)
locks_in_order(steps, k, held) ==
    IF k > Len(steps) THEN TRUE
    ELSE IF steps[k].op = "acquire"
    THEN /\ lock_in_order(steps[k].lock, held)
         /\ locks_in_order(steps, k + 1, held \cup {steps[k].lock})
    ELSE locks_in_order(steps, k + 1, held \ {steps[k].lock})

RECURSIVE held_after(_, _, _)
held_after(steps, k, held) ==
    IF k > Len(steps) THEN held
    ELSE held_after(steps, k + 1,
                    IF steps[k].op = "acquire" THEN held \cup {steps[k].lock}
                    ELSE held \ {steps[k].lock})

\* C30: lock ordering inside register, add_entity, remove_entity and the
\* page synchronization.  In every step of a thread inside add_entity or
\* remove_entity, and in every register call, the write lock of the
\* registry is never requested while a column lock is held, and a cell
\* lock is only requested under the read lock of the cell's column; the
\* locks held after the step are those the registry records for the
\* thread.
C30_LockOrdering ==
    [][/\ \A t \in Threads :
            th'[t] # th[t] =>
               LET held == held_locks(t, c_readers, c_writer, col_writers)
               IN /\ locks_in_order(lock_steps(t), 1, held)
                  /\ held_after(lock_steps(t), 1, held)
                        = held_locks(t, c_readers', c_writer', col_writers')
       /\ (last'.op = "register" /\ last' # last) =>
            \A order \in iteration_orders(components') :
                /\ locks_in_order(register_locks(order), 1, {})
                /\ held_after(register_locks(order), 1, {}) = {}]_vars

\* A thread ran the page synchronization inside add_entity while another
\* thread inside remove_entity has locked a cell of a column.
C30_Witness ==
    \E t, u \in Threads :
        /\ th[t].pc = "bitmask"
        /\ th[t].were_expansions
        /\ th[u].pc = "rm_cell"
        /\ th[u].k > 1
        /\ \E type \in DOMAIN components :
              CellInstalled(components, type, th[t].entity)

\* A thread inside add_entity waits in add_new_component for the write
\* lock of a column while iterators hold read guards of it, and the entity
\* it installs is in none of the entity lists of those iterators.
InstallBlocked(t) ==
    /\ th[t].pc = "elem_new"
    /\ column_readers(th[t].bundle[th[t].k].type) # {}
    /\ \A g \in column_readers(th[t].bundle[th[t].k].type) :
          th[t].entity \notin Range(sys[g[1]].entities[g[2]])

\* C31: layered locking.  An add_entity that installs a component for an
\* entity outside the entity list of a running system never waits for the
\* iterator that system holds over the same column.
C31_UnrelatedWritersDoNotWait ==
    \A t \in Threads : ~InstallBlocked(t)

\* C32: query_by_bitmask is an atomic snapshot with respect to bitmask
\* writes.  The list a scan returned is the filter applied to one of the
\* tables bit_masks went through between the start and the end of the
\* scan, whatever register_bitmask and reset_bitmask calls other threads
\* made.
C32_ScanIsSnapshot ==
    scan.pc = "done" =>
        \E table \in scan.tables :
            scan.f_entities = query_by_bitmask(table, scan.bitmasks)

\* A scan of a table of two pages returned the second id only, and a write
\* that came after the scan has changed the table.
C32_Witness ==
    /\ scan.pc = "done"
    /\ scan.f_entities = <<MaxEntityId>>
    /\ scan.bitmasks # 0
    /\ bit_masks \notin scan.tables

\* ReadAccessIterator::next / WriteAccessIterator::next: the slot of the
\* entity is missing, or its cell is empty.
cell_missing(buffer, entity) ==
    \/ get_panics(buffer, entity)
    \/ ~IsSome(get(buffer, entity))
    \/ ~IsSome(Unwrap(get(buffer, entity)))

\* The next call of the zip of system s calls next() of its view k: every
\* view before it yields an accessor, and view k has an id left.
ViewReaches(s, k) ==
    /\ sys[s].pc = "next"
    /\ k \in views(s)
    /\ sys[s].counter <= Len(sys[s].entities[k])
    /\ \A j \in views(s) :
          j < k => /\ sys[s].counter <= Len(sys[s].entities[j])
                   /\ ~cell_missing(components[sys[s].handles[j].type],
                                    sys[s].entities[j][sys[s].counter])

\* View k of system s is about to reach an id of its list whose cell is
\* empty or missing.
MissingExpectedCell(s, k) ==
    /\ ViewReaches(s, k)
    /\ cell_missing(components[sys[s].handles[k].type],
                    sys[s].entities[k][sys[s].counter])

\* C33: add_entity publishes the bitmask after the cells of the bundle are
\* installed, so while systems run concurrently with add_entity calls only,
\* no view reaches an id of its list whose cell is empty, and no system
\* panics.
C33_NoMissingCellUnderAdds ==
    \A s \in SystemIds :
        /\ sys[s].pc # "panicked"
        /\ \A k \in views(s) : ~MissingExpectedCell(s, k)

\* A system has read the component of an entity that add_entity published
\* after the system was dispatched.
C33_Witness ==
    \E s \in SystemIds : \E o \in sys[s].observed :
        /\ o.entity \notin Range(sys[s].dispatch)
        /\ \E r \in returned : r.entity = o.entity

\* C37: distinct registered component types always have distinct bit
\* positions, each below the bitmask width, after any interleaving of
\* register and add_entity calls.
C37_DistinctBitsBelowWidth ==
    \A t \in DOMAIN bitmasks :
        /\ bitmasks[t] < BitmaskWidth
        /\ \A u \in DOMAIN bitmasks : u # t => bitmasks[u] # bitmasks[t]

\* C38: a failing add_entity leaves the world unchanged.  When add_entity
\* fails on an unregistered type, no entity id is consumed (the counter of
\* entities and the free queue are as before), no cell is installed and
\* the counter of components keeps its value.
C38_FailedAddChangesNothing ==
    [][(last'.op = "add_entity" /\ last' # last /\ panicked') =>
          /\ number_of_entities' = number_of_entities
          /\ free_entities' = free_entities
          /\ components' = components
          /\ number_of_components' = number_of_components]_vars

\* C36: BlockVec::len returns the number of elements of the vector: 0 for a
\* new vector, and after any sequence of set calls the number of distinct
\* indices that hold an item.
C36_LenCountsItems ==
    \A v \in 1..Len(vecs) :
        len(vecs[v]) = Cardinality({i \in Indices : IsSome(bv_hist.written[v][i])})

\* A paged vector after a step: it has no fewer pages, and when it grew,
\* every slot it had holds what it held, at the same page and offset.
PagesKept(before, after) ==
    /\ blocks_len(after) >= blocks_len(before)
    /\ blocks_len(after) > blocks_len(before) =>
          \A i \in 0..(actual_len(before) - 1) : SlotAt(after, i) = SlotAt(before, i)

\* C35: pages are never removed.  Over any sequence of register,
\* add_entity, remove_entity and page synchronization the page count of
\* every column and of the bitmask table never decreases, and a growth
\* leaves every stored item at its page and offset.
C35_PagesNeverRemoved ==
    [][/\ PagesKept(bit_masks, bit_masks')
       /\ \A t \in DOMAIN components :
             /\ t \in DOMAIN components'
             /\ PagesKept(components[t], components'[t])]_vars

NextFaults ==
    \/ \E c0 \in TypeIds : c0 \notin DOMAIN components /\ Register(c0)
    \/ \E handles \in Systems : Run(handles)
    \/ WorkerPop
    \/ \E s \in SystemIds : SysSteps(s)

\* Fair scheduling: every worker thread that is alive keeps polling the
\* queue and keeps executing the task it popped.
FairFaults ==
    /\ WF_vars(WorkerPop)
    /\ \A s \in SystemIds : WF_vars(SysSteps(s))

SpecFaults == Init /\ [][NextFaults]_vars /\ FairFaults

\* The workers executing a task, the failed invocations, and the worker
\* threads that are alive.
busy_workers ==
    Cardinality({s \in SystemIds :
        sys[s].pc \in {"bitmasks", "query", "buffer", "iter", "next", "returned"}})

failed_systems == {s \in SystemIds : sys[s].pc = "panicked"}

alive_workers == idle_workers + busy_workers

====
